---- MODULE Spec2Model ----
(***************************************************************************)
(* Multi-provider query orchestration (ai_compare/compare.py) together     *)
(* with the provider adapters (ai_compare/models.py), the discovery        *)
(* defaults they resolve (ai_compare/model_discovery.py) and the token     *)
(* limits applied before dispatch (ai_compare/token_manager.py).           *)
(*                                                                         *)
(* One AICompare object lives for the whole process.  Every request runs   *)
(* on a fresh event loop (app.py), so a call is a single control flow in   *)
(* which the provider tasks are cooperatively scheduled.                   *)
(***************************************************************************)
EXTENDS Integers, Sequences, FiniteSets, TLC

VARIABLES
    apiKeys,            \* environment: providers whose credential is set and non-blank
    missingDeps,        \* environment: providers whose client library cannot be imported
    models,             \* AICompare.models: keys in insertion order
    adapterModels,      \* per adapter: self.models / self.config (<<>> while None)
    models_initialized, \* AICompare._models_initialized
    model_providers,    \* AICompare._model_providers ("" while unset)
    cache,              \* ModelDiscovery.cache: the list cached per provider key
    pc,                 \* position of the current call
    callKind,           \* "ask_all" or "get_available_models"
    question,           \* the prompt of the current ask_all call (its word count)
    initIdx,            \* position of the loop over model_classes
    snapshot,           \* the (name, model) pairs ask_all built its tasks from
    nextStart,          \* next task of the gather to take its first step
    tasks,              \* per provider: the _safe_ask task of the current call
    responses,          \* per provider: the tuple value its task returned
    loopHolder,         \* task that is executing synchronously on the event loop
    cons,               \* the summarize / consolidate coroutines of the current call
    result,             \* the result dict of the current ask_all call
    outcome,            \* what the call gave its caller
    nCalls,             \* calls made so far in this process
    constructed,        \* history: constructor invocations per provider
    called,             \* history: providers whose get_response ran for the query
    delegated,          \* history: providers that received a consolidation call
    gr,                 \* one adapter's get_response call, with the attempts it made
    now,                \* wall clock, in seconds (time.time())
    disc_cache,         \* ModelDiscovery.cache['openai']: data and timestamp
    callers,            \* the get_openai_models coroutines in progress
    nDiscovery,         \* get_openai_models calls made so far
    returned,           \* history: the call of get_openai_models that returned last
    populations,        \* history: the lists written to the cache, in order
    inits,              \* the overlapping first calls on the shared AICompare, by position
    stored,             \* history: the adapter instances stored in self.models, per key
    tm,                 \* one validate_and_truncate call: its input, its result, and the result of applying it again
    ep,                 \* one discover_endpoints call: its base_urls, the probes made, working_endpoints
    cm,                 \* one ConversationManager: the session files, conversation_cache, the last history read
    ad                  \* the ChatGPTModel instances of the process: self.models, and what each asked and tried

vars == << apiKeys, missingDeps, models, adapterModels, models_initialized,
           model_providers, cache, pc, callKind, question, initIdx, snapshot, nextStart,
           tasks, responses, loopHolder, cons, result, outcome, nCalls,
           constructed, called, delegated, gr, now, disc_cache, callers,
           nDiscovery, returned, populations,
           inits, stored,
           tm,
           ep,
           cm,
           ad >>

(***************************************************************************)
(* Bounds of the exploration.                                              *)
(***************************************************************************)
\* calls (ask_all / get_available_models) made on the one AICompare object
MaxCalls == 2
\* providers that have a credential in the environment
MaxKeys == 3
\* get_openai_models calls made in one process
MaxDiscCalls == 3
\* the clock stops here
MaxTime == 3700

(***************************************************************************)
(* Strings.  Model names are character sequences where the code matches    *)
(* substrings; texts are sequences of literal pieces with a length.        *)
(***************************************************************************)
IsSubstring(a, b) ==
    \E i \in 0..(Len(b) - Len(a)) : SubSeq(b, i + 1, i + Len(a)) = a

Chars(name) ==
    CASE name = "chatgpt" -> <<"c","h","a","t","g","p","t">>
      [] name = "claude"  -> <<"c","l","a","u","d","e">>
      [] name = "gemini"  -> <<"g","e","m","i","n","i">>
      [] name = "meta"    -> <<"m","e","t","a">>
      [] name = "grok"    -> <<"g","r","o","k">>
      [] name = "default" -> <<"d","e","f","a","u","l","t">>
      [] name = "gpt-4"   -> <<"g","p","t","-","4">>
      [] name = "gpt-4-turbo"   -> <<"g","p","t","-","4","-","t","u","r","b","o">>
      [] name = "gpt-3.5-turbo" -> <<"g","p","t","-","3",".","5","-","t","u","r","b","o">>
      [] name = "claude-3-opus"   -> <<"c","l","a","u","d","e","-","3","-","o","p","u","s">>
      [] name = "claude-3-sonnet" -> <<"c","l","a","u","d","e","-","3","-","s","o","n","n","e","t">>
      [] name = "claude-3-haiku"  -> <<"c","l","a","u","d","e","-","3","-","h","a","i","k","u">>
      [] name = "claude-2"        -> <<"c","l","a","u","d","e","-","2">>
      [] name = "gemini-pro"      -> <<"g","e","m","i","n","i","-","p","r","o">>
      [] name = "gemini-1.5-pro"  -> <<"g","e","m","i","n","i","-","1",".","5","-","p","r","o">>
      [] name = "llama-2" -> <<"l","l","a","m","a","-","2">>
      [] name = "llama-3" -> <<"l","l","a","m","a","-","3">>
      [] name = "grok-1"  -> <<"g","r","o","k","-","1">>

(***************************************************************************)
(* token_manager.py                                                        *)
(***************************************************************************)
\* TokenManager.MODEL_LIMITS, each provider's entries in dict order
MODEL_LIMITS(provider) ==
    CASE provider = "openai" ->
            << <<"gpt-4", 8000>>, <<"gpt-4-turbo", 128000>>,
               <<"gpt-3.5-turbo", 4000>>, <<"default", 4000>> >>
      [] provider = "anthropic" ->
            << <<"claude-3-opus", 200000>>, <<"claude-3-sonnet", 200000>>,
               <<"claude-3-haiku", 200000>>, <<"claude-2", 100000>>,
               <<"default", 100000>> >>
      [] provider = "google" ->
            << <<"gemini-pro", 30000>>, <<"gemini-1.5-pro", 1000000>>,
               <<"default", 30000>> >>
      [] provider = "meta" ->
            << <<"llama-2", 4000>>, <<"llama-3", 8000>>, <<"default", 4000>> >>
      [] provider = "grok" ->
            << <<"grok-1", 8000>>, <<"default", 8000>> >>
      [] OTHER -> << >>

\* provider_limits.get('default', 4000)
DefaultLimit(provider) ==
    LET pl == MODEL_LIMITS(provider)
        hits == { i \in 1..Len(pl) : pl[i][1] = "default" }
    IN  IF hits = {} THEN 4000 ELSE pl[CHOOSE i \in hits : TRUE][2]

\* TokenManager.get_model_limit: exact match, else the first entry (dict order)
\* one of whose name and the model name contains the other, else the default
get_model_limit(provider, model_name) ==
    LET pl == MODEL_LIMITS(provider)
        exact == { i \in 1..Len(pl) : pl[i][1] = model_name }
        partial == { i \in 1..Len(pl) :
                        \/ IsSubstring(Chars(pl[i][1]), Chars(model_name))
                        \/ IsSubstring(Chars(model_name), Chars(pl[i][1])) }
        first == CHOOSE i \in partial : \A j \in partial : i <= j
    IN  IF exact # {} THEN pl[CHOOSE i \in exact : TRUE][2]
        ELSE IF partial # {} THEN pl[first][2]
        ELSE DefaultLimit(provider)

\* ApproximateTokenCounter.count_tokens on a text of the given number of words:
\* int(words / 0.75)
count_tokens(words) == (words * 4) \div 3

\* TokenManager.validate_and_truncate, the flag it returns
was_truncated(words, provider, model_name) ==
    count_tokens(words) > get_model_limit(provider, model_name)

(***************************************************************************)
(* Texts and exceptions.  A text is the sequence of its literal pieces and *)
(* its length in characters; the literal "Error:" is a piece of its own so *)
(* that startswith('Error:') is computed, not assumed.                     *)
(***************************************************************************)
Text(pieces, len) == [isStr |-> TRUE, s |-> pieces, n |-> len]

\* Python's None where a text was expected
NoneValue == [isStr |-> FALSE, s |-> <<"None">>, n |-> 4]

\* str(v) as an f-string renders it
Str(v) == [isStr |-> TRUE, s |-> v.s, n |-> v.n]

\* f"{a}{b}"
Concat(a, b) == Text(Str(a).s \o Str(b).s, Str(a).n + Str(b).n)

\* v.startswith('Error:') on a str
StartsWithError(v) == Len(v.s) > 0 /\ v.s[1] = "Error:"

\* the exception a failing candidate raises; its message names the candidate
CandidateFailure(i) ==
    [type |-> "Exception",
     msg |-> Text(<<"candidate failed ", ToString(i)>>, 18),
     cand |-> i]

\* compare.py:106  f"[Input was truncated for token limits]\n\n{response}"
TruncationPrefix == Text(<<"[Input was truncated for token limits]\n\n">>, 40)

\* variant: the separator after the colon is left out
ErrorResultNoSpace(e) == Concat(Text(<<"Error:">>, 6), e.msg)

\* compare.py:110  f"Error: {str(e)}"
ErrorResult(e) == Concat(Text(<<"Error:", " ">>, 7), e.msg)

\* compare.py:81-82  x[:4000] if len(x) > 4000 else x
CapLength == 4000

Cap(v) == IF v.n > CapLength THEN [v EXCEPT !.n = CapLength] ELSE v

(***************************************************************************)
(* Providers, adapters (models.py) and the lists discovery resolves        *)
(* (model_discovery.py).                                                   *)
(***************************************************************************)
\* compare.py:22-28, in dict order
model_classes == <<"chatgpt", "claude", "gemini", "meta", "grok">>

Providers == { model_classes[i] : i \in 1..Len(model_classes) }

\* compare.py:34-40
provider_map(name) ==
    CASE name = "chatgpt" -> "openai"
      [] name = "claude"  -> "anthropic"
      [] name = "gemini"  -> "google"
      [] name = "meta"    -> "meta"
      [] name = "grok"    -> "grok"

\* adapters whose constructor imports a client library after the key check
ImportsLibrary == {"chatgpt", "claude", "gemini"}

\* GeminiModel.get_response calls generate_content without awaiting it
Blocking(name) == name = "gemini"

\* adapters whose completion call may hand back a non-text content
\* (message.content / data["response"] are whatever the payload holds)
MayReturnNone(name) == name \in {"chatgpt", "meta", "grok"}

NoConfig == [endpoints |-> << >>, models |-> << >>]

\* model_discovery.py: the hardcoded lists
FallbackConfig(name) ==
    CASE name = "chatgpt" ->
            [endpoints |-> << >>,
             models |-> <<"gpt-4o-mini", "gpt-4", "gpt-3.5-turbo">>]
      [] name = "claude" ->
            [endpoints |-> << >>,
             models |-> <<"claude-3-5-sonnet-20241022", "claude-3-opus-20240229",
                          "claude-3-sonnet-20240229", "claude-3-haiku-20240307">>]
      [] name = "gemini" ->
            [endpoints |-> << >>,
             models |-> <<"gemini-1.5-pro", "gemini-1.5-flash",
                          "gemini-pro", "gemini-pro-vision">>]
      [] name = "meta" ->
            [endpoints |-> <<"https://api.together.xyz/v1">>,
             models |-> <<"meta-llama/Llama-2-70b-chat-hf",
                          "meta-llama/Llama-2-13b-chat-hf",
                          "meta-llama/Llama-2-7b-chat-hf">>]
      [] name = "grok" ->
            [endpoints |-> <<"https://api.x.ai/v1">>,
             models |-> <<"grok-beta", "grok-2", "grok-1">>]

\* what the adapter's _get_models / _get_config resolves to: the hardcoded
\* list, or for OpenAI a live list already ordered by model_priority
Resolved(name) ==
    IF name = "chatgpt"
    THEN { FallbackConfig(name),
           [endpoints |-> << >>, models |-> <<"gpt-4-turbo", "gpt-4">>] }
    ELSE { FallbackConfig(name) }

\* variant: the loops are nested the other way round
CandidatesModelMajor(cfg) ==
    IF cfg.endpoints = << >>
    THEN [ i \in 1..Len(cfg.models) |-> [ep |-> "", model |-> cfg.models[i]] ]
    ELSE [ k \in 1..(Len(cfg.endpoints) * Len(cfg.models)) |->
             [ep    |-> cfg.endpoints[((k - 1) % Len(cfg.endpoints)) + 1],
              model |-> cfg.models[((k - 1) \div Len(cfg.endpoints)) + 1]] ]

\* the candidates of one get_response in the order the loops visit them:
\* models for a plain list, endpoints outer and models inner for a config
Candidates(cfg) ==
    IF cfg.endpoints = << >>
    THEN [ i \in 1..Len(cfg.models) |-> [ep |-> "", model |-> cfg.models[i]] ]
    ELSE [ k \in 1..(Len(cfg.endpoints) * Len(cfg.models)) |->
             [ep    |-> cfg.endpoints[((k - 1) \div Len(cfg.models)) + 1],
              model |-> cfg.models[((k - 1) % Len(cfg.models)) + 1]] ]

\* variant: the test compares with the head of the list
IsLastCandidateHead(cfg, i) ==
    LET c == Candidates(cfg)[i]
    IN  /\ c.model = cfg.models[1]
        /\ cfg.endpoints # << >> => c.ep = cfg.endpoints[1]

\* the test that re-raises: model == models[-1]
\* (and api_url == endpoints[-1] for a config)
IsLastCandidate(cfg, i) ==
    LET c == Candidates(cfg)[i]
    IN  /\ c.model = cfg.models[Len(cfg.models)]
        /\ cfg.endpoints # << >> => c.ep = cfg.endpoints[Len(cfg.endpoints)]

(***************************************************************************)
(* Inputs: prompts by their number of words, and what a completion call    *)
(* may hand back.                                                          *)
(***************************************************************************)
QuestionWords == {3, 4500}

PlainText == Text(<<"answer">>, 6)

\* a completion whose text itself begins with "Error:"
ErrLikeText == Text(<<"Error:", " quota exceeded">>, 21)

\* a completion longer than the cap of the consolidation entries
LongText == Text(<<"long answer">>, CapLength + 1)

QueryPayloads(name) ==
    {PlainText, ErrLikeText} \cup (IF MayReturnNone(name) THEN {NoneValue} ELSE {})

ConsPayloads(name) ==
    {PlainText, LongText} \cup (IF MayReturnNone(name) THEN {NoneValue} ELSE {})

(***************************************************************************)
(* State of one call.                                                      *)
(***************************************************************************)
NoTask == "-"

\* st: none / calling / done; idx: the candidate being attempted (the candidates
\* before it have raised); exc: the candidate whose exception get_response
\* re-raised; exhausted: it re-raised after every candidate had raised
NewTask == [st |-> "none", idx |-> 0, trunc |-> FALSE, exc |-> 0, exhausted |-> FALSE]

ConsKinds == <<"summary", "consolidate">>

NewCons == [st |-> "none", idx |-> 0, value |-> NoneValue,
            delegate |-> NoTask, inputs |-> {}]

EmptyDict == [k \in {} |-> NoneValue]

NoOutcome == [kind |-> "none", list |-> << >>, exc |-> ""]

AutoKeys == {"_auto_summary", "_auto_consolidated"}

\* list(self.models.keys()) as a set
ActiveSet == { models[i] : i \in 1..Len(models) }

\* no discover_endpoints call made yet
NoProbe == [st |-> "idle", base_urls |-> << >>, probes |-> << >>, working |-> << >>]

\* sessions one manager creates
MaxSessions == 2

\* a session file that is not there, and a cache without the session
NoSession == [state |-> "absent", messages |-> << >>, message_count |-> 0]

\* ConversationManager.__init__: conversation_cache = {}, no file written
NoManager ==
    [disk |-> [s \in 1..MaxSessions |-> NoSession],
     cache |-> [s \in 1..MaxSessions |-> NoSession],
     created |-> 0,
     last |-> [session |-> 0, forced |-> FALSE, messages |-> << >>]]

\* ChatGPTModel instances in one process
MaxAdapters == 2

\* ChatGPTModel.__init__: self.models = None; nothing asked or tried
NoAdapters ==
    [a \in 1..MaxAdapters |->
        [models |-> <<"None">>, obtained |-> << >>, consulted |-> 0, tried |-> << >>]]

\* No validate_and_truncate call under study.
NoTokenCall == [st |-> "idle", text |-> << >>, limit |-> 0,
                out |-> [parts |-> << >>, marker |-> ""], flag |-> FALSE,
                out2 |-> [parts |-> << >>, marker |-> ""], flag2 |-> FALSE]

\* No get_response call under study.
NoRun == [st |-> "idle", name |-> "", cfg |-> NoConfig, idx |-> 0,
          attempts |-> << >>, value |-> NoneValue, exc |-> NoOutcome]

\* No get_openai_models call has returned.
NoReturn == [value |-> << >>, hit |-> FALSE, live |-> 0, exhausted |-> FALSE,
             timedOut |-> FALSE, elapsed |-> 0, window |-> {}]

\* ModelDiscovery.cache without an 'openai' entry.
EmptyCache == [present |-> FALSE, data |-> << >>, timestamp |-> 0]

\* The object as AICompare.__init__ leaves it, in any environment: which
\* credentials are set, and which client libraries fail to import (a missing
\* library is only ever noticed for a provider that has its credential,
\* because the constructors test the credential first).
InitObject ==
    /\ models = << >>
    /\ adapterModels = [p \in Providers |-> NoConfig]
    /\ models_initialized = FALSE
    /\ model_providers = [p \in Providers |-> ""]
    /\ cache = [p \in Providers |-> NoConfig]
    /\ pc = "idle"
    /\ callKind = ""
    /\ question = 0
    /\ initIdx = 0
    /\ snapshot = << >>
    /\ nextStart = 1
    /\ tasks = [p \in Providers |-> NewTask]
    /\ responses = [p \in Providers |-> NoneValue]
    /\ loopHolder = NoTask
    /\ cons = [k \in {"summary", "consolidate"} |-> NewCons]
    /\ result = EmptyDict
    /\ outcome = NoOutcome
    /\ nCalls = 0
    /\ constructed = [p \in Providers |-> 0]
    /\ called = {}
    /\ delegated = {}

Init ==
    /\ apiKeys \in { K \in SUBSET Providers : Cardinality(K) <= MaxKeys }
    /\ missingDeps \in SUBSET (apiKeys \cap ImportsLibrary)
    /\ InitObject
    /\ gr = NoRun
    /\ now = 0
    /\ disc_cache = EmptyCache
    /\ callers = << >>
    /\ nDiscovery = 0
    /\ returned = NoReturn
    /\ populations = << >>
    /\ inits = << >>
    /\ stored = [p \in Providers |-> << >>]
    /\ tm = NoTokenCall
    /\ ep = NoProbe
    /\ cm = NoManager
    /\ ad = NoAdapters

envVars == << apiKeys, missingDeps >>
adapterVars == << gr >>
discVars == << now, disc_cache, callers, nDiscovery, returned, populations >>
objVars == << models, adapterModels, models_initialized, model_providers, cache >>
taskVars == << snapshot, nextStart, tasks, responses, loopHolder >>
overlapVars == << inits, stored >>
tokenVars == << tm >>
endpointVars == << ep >>
conversationVars == << cm >>
lifetimeVars == << ad >>

(***************************************************************************)
(* A request arrives: app.py runs ask_all or get_available_models on a     *)
(* fresh event loop.                                                       *)
(***************************************************************************)
StartCall(kind, words) ==
    /\ pc \in {"idle", "returned", "raised"}
    /\ nCalls < MaxCalls
    /\ nCalls' = nCalls + 1
    /\ callKind' = kind
    /\ question' = words
    /\ pc' = "ensure"
    /\ initIdx' = 0
    /\ snapshot' = << >>
    /\ nextStart' = 1
    /\ tasks' = [p \in Providers |-> NewTask]
    /\ responses' = [p \in Providers |-> NoneValue]
    /\ loopHolder' = NoTask
    /\ cons' = [k \in {"summary", "consolidate"} |-> NewCons]
    /\ result' = EmptyDict
    /\ outcome' = NoOutcome
    /\ called' = {}
    /\ delegated' = {}
    /\ UNCHANGED << adapterVars, discVars, envVars, lifetimeVars, conversationVars, endpointVars, tokenVars, overlapVars, objVars, constructed >>

\* AICompare._ensure_models_initialized, the test of the flag
EnsureModelsInitialized ==
    /\ pc = "ensure"
    /\ IF models_initialized
       THEN pc' = "ready" /\ initIdx' = initIdx
       ELSE pc' = "init" /\ initIdx' = 1
    /\ UNCHANGED << adapterVars, discVars, envVars, lifetimeVars, conversationVars, endpointVars, tokenVars, overlapVars, objVars, callKind, question, taskVars, cons, result,
                    outcome, nCalls, constructed, called, delegated >>

\* the except clause of the loop over model_classes: the exception types it swallows
SwallowedAtConstruction == {"ValueError"}

\* what model_class() raises: ValueError without a credential, ImportError
\* when the client library is missing, nothing otherwise
ConstructionError(name) ==
    IF name \notin apiKeys THEN "ValueError"
    ELSE IF name \in ImportsLibrary /\ name \in missingDeps THEN "ImportError"
    ELSE ""

\* self.models[name] = model_instance on an insertion-ordered dict
DictSet(keys, name) ==
    IF \E i \in 1..Len(keys) : keys[i] = name THEN keys ELSE Append(keys, name)

\* one iteration of the loop of _initialize_available_models
InitProvider ==
    /\ pc = "init"
    /\ initIdx \in 1..Len(model_classes)
    /\ LET name == model_classes[initIdx]
           err == ConstructionError(name)
       IN  /\ constructed' = [constructed EXCEPT ![name] = @ + 1]
           /\ IF err = ""
              THEN \E cfg \in (IF cache[name] # NoConfig THEN {cache[name]}
                                                         ELSE Resolved(name)) :
                     /\ model_providers' = [model_providers EXCEPT ![name] = provider_map(name)]
                     /\ cache' = [cache EXCEPT ![name] = cfg]
                     /\ adapterModels' = [adapterModels EXCEPT ![name] = cfg]
                     /\ models' = DictSet(models, name)
                     /\ initIdx' = initIdx + 1
                     /\ UNCHANGED << pc, outcome >>
              ELSE IF err \in SwallowedAtConstruction
              THEN /\ initIdx' = initIdx + 1
                   /\ UNCHANGED << models, adapterModels, model_providers, cache,
                                   pc, outcome >>
              ELSE /\ pc' = "raised"
                   /\ outcome' = [kind |-> "raised", list |-> << >>, exc |-> err]
                   /\ UNCHANGED << models, adapterModels, model_providers, cache,
                                   initIdx >>
    /\ UNCHANGED << adapterVars, discVars, envVars, lifetimeVars, conversationVars, endpointVars, tokenVars, overlapVars, models_initialized, callKind, question, taskVars,
                    cons, result, nCalls, called, delegated >>

\* the loop is over: self._models_initialized = True
InitDone ==
    /\ pc = "init"
    /\ initIdx = Len(model_classes) + 1
    /\ models_initialized' = TRUE
    /\ pc' = "ready"
    /\ UNCHANGED << adapterVars, discVars, envVars, lifetimeVars, conversationVars, endpointVars, tokenVars, overlapVars, models, adapterModels, model_providers, cache,
                    callKind, question, initIdx, taskVars, cons, result, outcome,
                    nCalls, constructed, called, delegated >>

\* get_available_models: return list(self.models.keys())
GetAvailableModelsReturn ==
    /\ pc = "ready"
    /\ callKind = "get_available_models"
    /\ pc' = "returned"
    /\ outcome' = [kind |-> "returned", list |-> models, exc |-> ""]
    /\ UNCHANGED << adapterVars, discVars, envVars, lifetimeVars, conversationVars, endpointVars, tokenVars, overlapVars, objVars, callKind, question, initIdx, taskVars, cons,
                    result, nCalls, constructed, called, delegated >>

\* variant: the test is "self.models is None", which an empty dict never satisfies
NoModelsAvailableIsNone == FALSE

\* ask_all: if not self.models
NoModelsAvailable == models = << >>

\* ask_all: raise ValueError("No AI models available. ...")
AskAllNoModels ==
    /\ pc = "ready"
    /\ callKind = "ask_all"
    /\ NoModelsAvailable
    /\ pc' = "raised"
    /\ outcome' = [kind |-> "raised", list |-> << >>, exc |-> "ValueError"]
    /\ UNCHANGED << adapterVars, discVars, envVars, lifetimeVars, conversationVars, endpointVars, tokenVars, overlapVars, objVars, callKind, question, initIdx, taskVars, cons,
                    result, nCalls, constructed, called, delegated >>

\* ask_all: one _safe_ask coroutine per entry of self.models, handed to gather
AskAllDispatch ==
    /\ pc = "ready"
    /\ callKind = "ask_all"
    /\ ~NoModelsAvailable
    /\ snapshot' = models
    /\ nextStart' = 1
    /\ pc' = "gather"
    /\ UNCHANGED << adapterVars, discVars, envVars, lifetimeVars, conversationVars, endpointVars, tokenVars, overlapVars, objVars, callKind, question, initIdx, tasks, responses,
                    loopHolder, cons, result, outcome, nCalls, constructed, called,
                    delegated >>

(***************************************************************************)
(* The provider tasks of one ask_all: _safe_ask around get_response.       *)
(* gather starts the tasks in the order of self.models; each runs up to    *)
(* its first suspension.  An awaited completion call suspends the task; a  *)
(* completion call that is not awaited keeps the event loop.               *)
(***************************************************************************)
AllStarted == nextStart > Len(snapshot)

\* may coroutine h, working through adapter name, take its next step?
CanRun(h, name) ==
    IF Blocking(name) THEN loopHolder = h
    ELSE loopHolder = NoTask /\ AllStarted

\* _safe_ask lines 104-108: the value of the tuple on success
Response(trunc, payload) ==
    IF trunc THEN Concat(TruncationPrefix, payload) ELSE payload

\* _safe_ask: first step of the task of the next provider
TaskStart ==
    /\ pc = "gather"
    /\ nextStart \in 1..Len(snapshot)
    /\ loopHolder = NoTask
    /\ LET name == snapshot[nextStart]
           provider == IF model_providers[name] = "" THEN "openai"
                                                     ELSE model_providers[name]
           trunc == was_truncated(question, provider, name)
           n == Len(Candidates(adapterModels[name]))
       IN  /\ called' = called \cup {name}
           /\ IF n = 0
              THEN /\ tasks' = [tasks EXCEPT ![name] =
                                  [NewTask EXCEPT !.st = "done", !.trunc = trunc]]
                   /\ responses' = [responses EXCEPT ![name] = Response(trunc, NoneValue)]
                   /\ loopHolder' = NoTask
              ELSE /\ tasks' = [tasks EXCEPT ![name] =
                                  [NewTask EXCEPT !.st = "calling", !.idx = 1,
                                                  !.trunc = trunc]]
                   /\ responses' = responses
                   /\ loopHolder' = IF Blocking(name) THEN name ELSE NoTask
    /\ nextStart' = nextStart + 1
    /\ UNCHANGED << adapterVars, discVars, envVars, lifetimeVars, conversationVars, endpointVars, tokenVars, overlapVars, objVars, pc, callKind, question, initIdx, snapshot,
                    cons, result, outcome, nCalls, constructed, delegated >>

\* the completion call of the current candidate returns a payload:
\* get_response returns it and _safe_ask returns (model_name, response)
CandidateReturns(name, payload) ==
    /\ pc = "gather"
    /\ tasks[name].st = "calling"
    /\ CanRun(name, name)
    /\ tasks' = [tasks EXCEPT ![name].st = "done", ![name].idx = 0]
    /\ responses' = [responses EXCEPT ![name] = Response(tasks[name].trunc, payload)]
    /\ loopHolder' = NoTask
    /\ UNCHANGED << adapterVars, discVars, envVars, lifetimeVars, conversationVars, endpointVars, tokenVars, overlapVars, objVars, pc, callKind, question, initIdx, snapshot,
                    nextStart, cons, result, outcome, nCalls, constructed, called,
                    delegated >>

\* the completion call of the current candidate raises: re-raised for the
\* last candidate (and caught by _safe_ask), otherwise the loop continues;
\* a loop that runs out without returning makes get_response return None
CandidateRaises(name) ==
    /\ pc = "gather"
    /\ tasks[name].st = "calling"
    /\ CanRun(name, name)
    /\ LET t == tasks[name]
           cfg == adapterModels[name]
       IN  IF IsLastCandidate(cfg, t.idx)
           THEN /\ tasks' = [tasks EXCEPT ![name].st = "done",
                                          ![name].idx = 0,
                                          ![name].exc = t.idx,
                                          ![name].exhausted =
                                              (t.idx = Len(Candidates(cfg)))]
                /\ responses' = [responses EXCEPT ![name] =
                                    ErrorResult(CandidateFailure(t.idx))]
                /\ loopHolder' = NoTask
           ELSE IF t.idx < Len(Candidates(cfg))
           THEN /\ tasks' = [tasks EXCEPT ![name].idx = t.idx + 1]
                /\ UNCHANGED << responses, loopHolder >>
           ELSE /\ tasks' = [tasks EXCEPT ![name].st = "done", ![name].idx = 0]
                /\ responses' = [responses EXCEPT ![name] = Response(t.trunc, NoneValue)]
                /\ loopHolder' = NoTask
    /\ UNCHANGED << adapterVars, discVars, envVars, lifetimeVars, conversationVars, endpointVars, tokenVars, overlapVars, objVars, pc, callKind, question, initIdx, snapshot,
                    nextStart, cons, result, outcome, nCalls, constructed, called,
                    delegated >>

(***************************************************************************)
(* The join of the provider tasks and the consolidation stage.             *)
(***************************************************************************)
\* variant: the join resumes as soon as one task has returned
GatherFirstCompleted == \E i \in 1..Len(snapshot) : tasks[snapshot[i]].st = "done"

\* await asyncio.gather(*tasks): every task has returned its tuple
GatherComplete == \A i \in 1..Len(snapshot) : tasks[snapshot[i]].st = "done"

\* variant: a task that caught an exception contributes no entry
ResultDictOmitFailures ==
    [ name \in { snapshot[i] : i \in { j \in 1..Len(snapshot) :
                                          /\ tasks[snapshot[j]].st = "done"
                                          /\ tasks[snapshot[j]].exc = 0 } }
        |-> responses[name] ]

\* dict(responses): one entry per tuple the tasks returned
ResultDict ==
    [ name \in { snapshot[i] : i \in { j \in 1..Len(snapshot) :
                                          tasks[snapshot[j]].st = "done" } }
        |-> responses[name] ]

\* {k: v for k, v in result.items() if not v.startswith('Error:')}
SuccessfulResponses(r) == { k \in DOMAIN r : ~StartsWithError(r[k]) }

\* variant: one successful response is enough
ConsolidationTriggeredAtOne(succ) == Cardinality(succ) > 0

\* if len(successful_responses) > 1
ConsolidationTriggered(succ) == Cardinality(succ) > 1

\* summarize_responses / consolidate_responses without model_name:
\* model_name = next(iter(self.models))
Delegate == models[1]

\* ask_all lines 68-73 (and the return of line 87 when nothing is to consolidate)
GatherDone ==
    /\ pc = "gather"
    /\ AllStarted
    /\ GatherComplete
    /\ loopHolder = NoTask
    /\ LET r == ResultDict
       IN  /\ result' = r
           /\ IF \E k \in DOMAIN r : ~r[k].isStr
              THEN /\ pc' = "raised"
                   /\ outcome' = [kind |-> "raised", list |-> << >>,
                                  exc |-> "AttributeError"]
              ELSE IF ConsolidationTriggered(SuccessfulResponses(r))
              THEN /\ pc' = "consolidate"
                   /\ outcome' = outcome
              ELSE /\ pc' = "returned"
                   /\ outcome' = [kind |-> "returned", list |-> << >>, exc |-> ""]
    /\ UNCHANGED << adapterVars, discVars, envVars, lifetimeVars, conversationVars, endpointVars, tokenVars, overlapVars, objVars, callKind, question, initIdx, taskVars, cons,
                    nCalls, constructed, called, delegated >>

BothConsStarted == \A k \in DOMAIN cons : cons[k].st # "none"

\* first step of summarize_responses, then of consolidate_responses: build the
\* prompt from the successful responses and call the delegate's get_response
ConsStart(k) ==
    /\ pc = "consolidate"
    /\ loopHolder = NoTask
    /\ cons[k].st = "none"
    /\ k = ConsKinds[1] \/ cons[ConsKinds[1]].st # "none"
    /\ LET succ == SuccessfulResponses(result)
           n == Len(Candidates(adapterModels[Delegate]))
       IN  /\ delegated' = delegated \cup {Delegate}
           /\ IF n = 0
              THEN /\ cons' = [cons EXCEPT ![k] =
                                 [NewCons EXCEPT !.st = "done", !.delegate = Delegate,
                                                 !.inputs = succ]]
                   /\ loopHolder' = NoTask
              ELSE /\ cons' = [cons EXCEPT ![k] =
                                 [NewCons EXCEPT !.st = "calling", !.idx = 1,
                                                 !.delegate = Delegate,
                                                 !.inputs = succ]]
                   /\ loopHolder' = IF Blocking(Delegate) THEN k ELSE NoTask
    /\ UNCHANGED << adapterVars, discVars, envVars, lifetimeVars, conversationVars, endpointVars, tokenVars, overlapVars, objVars, pc, callKind, question, initIdx, snapshot,
                    nextStart, tasks, responses, result, outcome, nCalls,
                    constructed, called >>

CanRunCons(k) ==
    IF Blocking(cons[k].delegate) THEN loopHolder = k
    ELSE loopHolder = NoTask /\ BothConsStarted

\* the delegate's completion call returns a payload
ConsCandidateReturns(k, payload) ==
    /\ pc = "consolidate"
    /\ cons[k].st = "calling"
    /\ CanRunCons(k)
    /\ cons' = [cons EXCEPT ![k].st = "done", ![k].idx = 0, ![k].value = payload]
    /\ loopHolder' = NoTask
    /\ UNCHANGED << adapterVars, discVars, envVars, lifetimeVars, conversationVars, endpointVars, tokenVars, overlapVars, objVars, pc, callKind, question, initIdx, snapshot,
                    nextStart, tasks, responses, result, outcome, nCalls,
                    constructed, called, delegated >>

\* the delegate's completion call raises
ConsCandidateRaises(k) ==
    /\ pc = "consolidate"
    /\ cons[k].st = "calling"
    /\ CanRunCons(k)
    /\ LET c == cons[k]
           cfg == adapterModels[c.delegate]
       IN  IF IsLastCandidate(cfg, c.idx)
           THEN /\ cons' = [cons EXCEPT ![k].st = "failed", ![k].idx = 0]
                /\ loopHolder' = NoTask
           ELSE IF c.idx < Len(Candidates(cfg))
           THEN /\ cons' = [cons EXCEPT ![k].idx = c.idx + 1]
                /\ UNCHANGED loopHolder
           ELSE /\ cons' = [cons EXCEPT ![k].st = "done", ![k].idx = 0]
                /\ loopHolder' = NoTask
    /\ UNCHANGED << adapterVars, discVars, envVars, lifetimeVars, conversationVars, endpointVars, tokenVars, overlapVars, objVars, pc, callKind, question, initIdx, snapshot,
                    nextStart, tasks, responses, result, outcome, nCalls,
                    constructed, called, delegated >>

\* r[key] = value on a dict
DictPut(r, key, value) ==
    [ k \in (DOMAIN r) \cup {key} |-> IF k = key THEN value ELSE r[k] ]

\* ask_all lines 81-82 inside the try: len() of a non-text raises TypeError,
\* which the except clause swallows, keeping what was stored before it
StoreAuto(r, summary, consolidated) ==
    IF ~summary.isStr THEN r
    ELSE IF ~consolidated.isStr THEN DictPut(r, "_auto_summary", Cap(summary))
    ELSE DictPut(DictPut(r, "_auto_summary", Cap(summary)),
                 "_auto_consolidated", Cap(consolidated))

\* variant: the inner gather collects exceptions (return_exceptions=True) and
\* each value that did arrive is stored
JoinResultKeepsDone(r, c) ==
    LET r1 == IF c["summary"].st = "done" /\ c["summary"].value.isStr
              THEN DictPut(r, "_auto_summary", Cap(c["summary"].value)) ELSE r
    IN  IF c["consolidate"].st = "done" /\ c["consolidate"].value.isStr
        THEN DictPut(r1, "_auto_consolidated", Cap(c["consolidate"].value)) ELSE r1

\* ask_all lines 75-85: the inner gather raises the first exception of either
\* coroutine, which skips lines 81-82; otherwise both values are stored
JoinResult(r, c) ==
    IF \E k \in DOMAIN c : c[k].st = "failed" THEN r
    ELSE StoreAuto(r, c["summary"].value, c["consolidate"].value)

\* ask_all lines 79-87: the inner gather delivers both values, or its first
\* exception, which is swallowed; then return result
ConsJoin ==
    /\ pc = "consolidate"
    /\ BothConsStarted
    /\ loopHolder = NoTask
    /\ \/ \E k \in DOMAIN cons : cons[k].st = "failed"
       \/ \A k \in DOMAIN cons : cons[k].st = "done"
    /\ result' = JoinResult(result, cons)
    /\ pc' = "returned"
    /\ outcome' = [kind |-> "returned", list |-> << >>, exc |-> ""]
    /\ UNCHANGED << adapterVars, discVars, envVars, lifetimeVars, conversationVars, endpointVars, tokenVars, overlapVars, objVars, callKind, question, initIdx, taskVars, cons,
                    nCalls, constructed, called, delegated >>

Next ==
    \/ \E kind \in {"ask_all", "get_available_models"} :
         \E words \in (IF kind = "ask_all" THEN QuestionWords ELSE {0}) :
            StartCall(kind, words)
    \/ EnsureModelsInitialized
    \/ InitProvider
    \/ InitDone
    \/ GetAvailableModelsReturn
    \/ AskAllNoModels
    \/ AskAllDispatch
    \/ TaskStart
    \/ \E name \in Providers : \E payload \in QueryPayloads(name) :
         CandidateReturns(name, payload)
    \/ \E name \in Providers : CandidateRaises(name)
    \/ GatherDone
    \/ \E k \in {"summary", "consolidate"} : ConsStart(k)
    \/ \E k \in {"summary", "consolidate"} :
         \E payload \in ConsPayloads(cons[k].delegate) : ConsCandidateReturns(k, payload)
    \/ \E k \in {"summary", "consolidate"} : ConsCandidateRaises(k)
    \/ ConsJoin

Spec == Init /\ [][Next]_vars

(***************************************************************************)
(* Properties of the orchestrator.                                         *)
(***************************************************************************)
AskAllReturned == callKind = "ask_all" /\ pc = "returned"

SnapshotSet == { snapshot[i] : i \in 1..Len(snapshot) }

\* providers whose get_response returned to _safe_ask without raising
ReturnedWithoutRaising ==
    { p \in SnapshotSet : tasks[p].st = "done" /\ tasks[p].exc = 0 }

\* C1: when ask_all returns, the keys of the result other than _auto_summary
\* and _auto_consolidated are exactly the active providers, failed or not.
C1_ResultKeysAreActiveSet ==
    AskAllReturned => (DOMAIN result) \ AutoKeys = ActiveSet

\* a returned result of three active providers, one of them exhausted, with
\* the consolidation entries present
C1_Witness ==
    /\ AskAllReturned
    /\ Cardinality(ActiveSet) = 3
    /\ \E p \in ActiveSet : tasks[p].exhausted
    /\ AutoKeys \subseteq DOMAIN result

\* C2: when ask_all returns, a provider all of whose candidates raised has
\* the value "Error: " followed by the message of the failure, with nothing
\* in front of it, also when its prompt had been truncated.
C2_ExhaustedYieldsErrorPrefix ==
    AskAllReturned =>
        \A p \in ActiveSet :
            tasks[p].exhausted =>
                /\ p \in DOMAIN result
                /\ result[p].isStr
                /\ Len(result[p].s) >= 2
                /\ result[p].s[1] = "Error:"
                /\ result[p].s[2] = " "
                /\ SubSeq(result[p].s, 3, Len(result[p].s))
                      = CandidateFailure(tasks[p].exc).msg.s
                /\ result[p].n = 7 + CandidateFailure(tasks[p].exc).msg.n

\* a returned result holding an exhausted provider whose prompt was truncated
C2_Witness ==
    /\ AskAllReturned
    /\ \E p \in ActiveSet : tasks[p].exhausted /\ tasks[p].trunc

\* C3: once ask_all has dispatched its provider tasks it does not raise,
\* whatever the completion calls raise or return.
C3_AskAllNeverRaisesAfterDispatch ==
    ~(callKind = "ask_all" /\ pc = "raised" /\ snapshot # << >>)

\* C4: ask_all returns only when every provider task it dispatched has
\* finished; a returned call has no task still in progress.
C4_ReturnsAfterAllTasks ==
    AskAllReturned =>
        /\ called = ActiveSet
        /\ \A p \in ActiveSet : tasks[p].st = "done"

\* a returned call that had three tasks to wait for
C4_Witness == AskAllReturned /\ Cardinality(called) = 3

\* C5: while a provider's completion call is in progress, the event loop is
\* free for each unfinished sibling task to take its next step.
C5_SiblingsNotBlocked ==
    \A p \in SnapshotSet :
        (pc = "gather" /\ tasks[p].st = "calling") =>
            \A q \in SnapshotSet \ {p} :
                tasks[q].st # "done" => loopHolder \in {NoTask, q}

\* C6: with an empty active set after initialization, ask_all raises the
\* "no models available" ValueError; no provider call and no consolidation
\* call is dispatched.
C6_EmptyActiveSetRaises ==
    ( /\ callKind = "ask_all"
      /\ models_initialized
      /\ models = << >>
      /\ pc \in {"gather", "consolidate", "returned", "raised"} )
    => /\ pc = "raised"
       /\ outcome.exc = "ValueError"
       /\ snapshot = << >>
       /\ called = {}
       /\ delegated = {}

\* ask_all has raised for want of providers
C6_Witness ==
    /\ callKind = "ask_all"
    /\ pc = "raised"
    /\ outcome.exc = "ValueError"
    /\ models_initialized
    /\ models = << >>

\* C7: a provider without credential is never active, get_available_models
\* returns exactly the providers with a credential, and the constructor of an
\* excluded provider is not attempted again by a later call.
C7_ExcludedNeverReconstructed ==
    /\ \A p \in Providers \ apiKeys : p \notin ActiveSet /\ constructed[p] <= 1
    /\ (callKind = "get_available_models" /\ pc = "returned")
          => { outcome.list[i] : i \in 1..Len(outcome.list) } = apiKeys

\* C8: a failure of one adapter's construction during lazy initialization
\* never raises out of the call; initialization goes on to the end.
C8_NoRaiseFromInitialization ==
    ~(pc = "raised" /\ ~models_initialized)

\* C9: every provider that receives a summary / consolidation call is one
\* whose own get_response succeeded in this query, never one whose result is
\* the error its task recorded.
C9_DelegateSucceeded ==
    \A p \in delegated : p \in ReturnedWithoutRaising

\* C10: with fewer than two providers that succeeded, no summary or
\* consolidation call is made and the result has no _auto_ entry.
C10_ConsolidationNeedsTwoSuccesses ==
    Cardinality(ReturnedWithoutRaising) < 2 =>
        /\ pc # "consolidate"
        /\ delegated = {}
        /\ (DOMAIN result) \cap AutoKeys = {}

\* a returned call of several providers of which exactly one succeeded
C10_Witness ==
    /\ AskAllReturned
    /\ Cardinality(ActiveSet) >= 2
    /\ Cardinality(ReturnedWithoutRaising) = 1

\* C11: when the summary or the consolidation call raises, ask_all still
\* returns; the result is exactly the entries the provider tasks produced,
\* unchanged, without _auto_summary and _auto_consolidated.
C11_ConsolidationFailureOmitsAuto ==
    (AskAllReturned /\ \E k \in DOMAIN cons : cons[k].st = "failed") =>
        /\ DOMAIN result = ActiveSet
        /\ \A p \in ActiveSet : result[p] = responses[p]

\* a returned call of three providers whose summary call answered and whose
\* consolidation call raised
C11_Witness ==
    /\ AskAllReturned
    /\ Cardinality(ActiveSet) = 3
    /\ cons["summary"].st = "done"
    /\ cons["summary"].value.isStr
    /\ cons["consolidate"].st = "failed"

\* the delegate behaves for the consolidation calls as it did for the query:
\* it raises again if its get_response raised, it answers with a text otherwise
DelegateBehavesAsInQuery ==
    \A k \in DOMAIN cons :
        cons[k].st # "none" =>
            IF cons[k].delegate \in ReturnedWithoutRaising
            THEN cons[k].st = "done" /\ cons[k].value.isStr
            ELSE cons[k].st \in {"calling", "failed"}

\* C12: three active providers, two answer with a text and one fails,
\* whichever it is; with every provider behaving for the consolidation calls
\* as for the query, the result has the three provider entries and both
\* _auto_summary and _auto_consolidated.
C12_TwoOfThreeConsolidated ==
    ( /\ AskAllReturned
      /\ Cardinality(ActiveSet) = 3
      /\ Cardinality({ p \in ActiveSet : tasks[p].exhausted }) = 1
      /\ Cardinality({ p \in ActiveSet :
                          /\ p \in ReturnedWithoutRaising
                          /\ ~StartsWithError(responses[p]) }) = 2
      /\ DelegateBehavesAsInQuery )
    => /\ (DOMAIN result) \ AutoKeys = ActiveSet
       /\ AutoKeys \subseteq DOMAIN result


(***************************************************************************)
(* One adapter's get_response, followed attempt by attempt.                *)
(***************************************************************************)

\* the adapters that post JSON over HTTP and read the payload themselves
HttpAdapters == {"meta", "grok"}

\* a configuration with two endpoints and two models, so that the nesting
\* of the loops over config['endpoints'] and config['models'] is visible
TwoByTwo(name) ==
    IF name = "meta"
    THEN [endpoints |-> <<"https://api.together.xyz/v1", "https://api.fireworks.ai/v1">>,
          models |-> <<"meta-llama/Llama-2-70b-chat-hf",
                       "meta-llama/Llama-2-13b-chat-hf">>]
    ELSE [endpoints |-> <<"https://api.x.ai/v1", "https://api.groq.com/v1">>,
          models |-> <<"grok-beta", "grok-2">>]

\* the lists one adapter may hold after _get_models / _get_config
AdapterConfigs(name) ==
    IF name \in HttpAdapters THEN Resolved(name) \cup { TwoByTwo(name) }
    ELSE Resolved(name)

\* what the provider generated when candidate i answered
ChoiceContent(i) == Text(<<"content of candidate ", ToString(i)>>, 22)

\* the flat "response" field of a payload candidate i answered with
FlatResponse(i) == Text(<<"response of candidate ", ToString(i)>>, 23)

\* the JSON bodies a 200 reply may carry: the "choices" field (absent, an
\* empty list, a list whose first message has content, a list whose first
\* message has null content, a list whose first item has no message), and
\* whether the "response" and "error" fields are there
HttpPayloads ==
    { [choices |-> "content", response |-> FALSE, error |-> FALSE],
      [choices |-> "content", response |-> TRUE, error |-> FALSE],
      [choices |-> "content", response |-> FALSE, error |-> TRUE],
      [choices |-> "null", response |-> FALSE, error |-> FALSE],
      [choices |-> "empty", response |-> TRUE, error |-> FALSE],
      [choices |-> "absent", response |-> TRUE, error |-> FALSE],
      [choices |-> "absent", response |-> TRUE, error |-> TRUE],
      [choices |-> "absent", response |-> FALSE, error |-> TRUE],
      [choices |-> "absent", response |-> FALSE, error |-> FALSE],
      [choices |-> "empty", response |-> FALSE, error |-> FALSE],
      [choices |-> "malformed", response |-> FALSE, error |-> FALSE] }

\* what the SDK adapters read from the client's reply
SdkReplies(name) ==
    IF name = "chatgpt" THEN {"text", "null"} ELSE {"text"}

\* variant: the flat field is looked at before the choices
ParsePayloadFlatFirst(p, i) ==
    IF p.response THEN [ok |-> TRUE, value |-> FlatResponse(i)]
    ELSE IF p.choices = "content" THEN [ok |-> TRUE, value |-> ChoiceContent(i)]
    ELSE IF p.choices = "null" THEN [ok |-> TRUE, value |-> NoneValue]
    ELSE [ok |-> FALSE, value |-> NoneValue]

\* the payload handling of the HTTP adapters, for the reply of candidate i:
\* ok with the value returned, or not ok when an exception is raised
ParsePayload(p, i) ==
    IF p.choices \notin {"absent", "empty"}
    THEN IF p.choices = "content" THEN [ok |-> TRUE, value |-> ChoiceContent(i)]
         ELSE IF p.choices = "null" THEN [ok |-> TRUE, value |-> NoneValue]
         ELSE [ok |-> FALSE, value |-> NoneValue]
    ELSE IF p.response THEN [ok |-> TRUE, value |-> FlatResponse(i)]
    ELSE [ok |-> FALSE, value |-> NoneValue]

\* variant: the loop steps over a candidate
NextCandidateSkips(i) == i + 2

\* the for loop takes the next candidate
NextCandidate(i) == i + 1

\* no JSON body was read: the call raised, or the adapter uses an SDK
NoPayload == [choices |-> "none", response |-> FALSE, error |-> FALSE]

\* one line of the attempt history: the candidate called, what came back
\* (an SDK reply or a JSON body, unless the call raised) and whether the
\* adapter returned from it
Attempt(cfg, i, reply, p, ok) ==
    [cand |-> i, ep |-> Candidates(cfg)[i].ep, model |-> Candidates(cfg)[i].model,
     raised |-> (reply = "" /\ p = NoPayload), reply |-> reply, payload |-> p,
     ok |-> ok]

\* await get_response(prompt) on an adapter that already holds its list
GetResponseStart(name, cfg) ==
    /\ gr.st = "idle"
    /\ name \in apiKeys
    /\ gr' = [NoRun EXCEPT !.st = "calling", !.name = name, !.cfg = cfg, !.idx = 1]
    /\ UNCHANGED << discVars, envVars, lifetimeVars, conversationVars, endpointVars, tokenVars, overlapVars, objVars, pc, callKind, question, initIdx,
                    taskVars, cons, result, outcome, nCalls, constructed, called,
                    delegated >>

\* the except clause of the current candidate: re-raise at the last
\* candidate, otherwise continue with the next one
AfterFailure(p) ==
    LET log == Append(gr.attempts, Attempt(gr.cfg, gr.idx, "", p, FALSE))
    IN  IF IsLastCandidate(gr.cfg, gr.idx)
        THEN [gr EXCEPT !.st = "raised", !.attempts = log,
                        !.exc = CandidateFailure(gr.idx)]
        ELSE IF gr.idx < Len(Candidates(gr.cfg))
        THEN [gr EXCEPT !.idx = NextCandidate(gr.idx), !.attempts = log]
        ELSE [gr EXCEPT !.st = "returned", !.attempts = log, !.value = NoneValue]

\* the current candidate's call raises (network error, API error, reply
\* that is not JSON)
AttemptRaises ==
    /\ gr.st = "calling"
    /\ gr' = AfterFailure(NoPayload)
    /\ UNCHANGED << discVars, envVars, lifetimeVars, conversationVars, endpointVars, tokenVars, overlapVars, objVars, pc, callKind, question, initIdx,
                    taskVars, cons, result, outcome, nCalls, constructed, called,
                    delegated >>

\* an SDK adapter's client returns: the adapter returns the text it reads
AttemptReturns(reply) ==
    /\ gr.st = "calling"
    /\ gr.name \notin HttpAdapters
    /\ reply \in SdkReplies(gr.name)
    /\ gr' = [gr EXCEPT !.st = "returned",
                        !.attempts = Append(@, Attempt(gr.cfg, gr.idx, reply, NoPayload, TRUE)),
                        !.value = IF reply = "text" THEN ChoiceContent(gr.idx)
                                  ELSE NoneValue]
    /\ UNCHANGED << discVars, envVars, lifetimeVars, conversationVars, endpointVars, tokenVars, overlapVars, objVars, pc, callKind, question, initIdx,
                    taskVars, cons, result, outcome, nCalls, constructed, called,
                    delegated >>

\* an HTTP adapter's POST returns a JSON body, which the adapter reads
AttemptPayload(p) ==
    /\ gr.st = "calling"
    /\ gr.name \in HttpAdapters
    /\ LET r == ParsePayload(p, gr.idx)
       IN  gr' = IF r.ok
                 THEN [gr EXCEPT !.st = "returned",
                                 !.attempts = Append(@, Attempt(gr.cfg, gr.idx, "", p, TRUE)),
                                 !.value = r.value]
                 ELSE AfterFailure(p)
    /\ UNCHANGED << discVars, envVars, lifetimeVars, conversationVars, endpointVars, tokenVars, overlapVars, objVars, pc, callKind, question, initIdx,
                    taskVars, cons, result, outcome, nCalls, constructed, called,
                    delegated >>

\* one adapter, constructed with its credential, idle
InitAdapter ==
    /\ apiKeys \in { {p} : p \in Providers }
    /\ missingDeps = {}
    /\ InitObject
    /\ gr = NoRun
    /\ now = 0
    /\ disc_cache = EmptyCache
    /\ callers = << >>
    /\ nDiscovery = 0
    /\ returned = NoReturn
    /\ populations = << >>
    /\ inits = << >>
    /\ stored = [p \in Providers |-> << >>]
    /\ tm = NoTokenCall
    /\ ep = NoProbe
    /\ cm = NoManager
    /\ ad = NoAdapters

NextAdapter ==
    \/ \E name \in Providers : \E cfg \in AdapterConfigs(name) :
         GetResponseStart(name, cfg)
    \/ AttemptRaises
    \/ \E reply \in {"text", "null"} : AttemptReturns(reply)
    \/ \E p \in HttpPayloads : AttemptPayload(p)

SpecAdapter == InitAdapter /\ [][NextAdapter]_vars

\* the candidates of the call under study, by position
Cands == Candidates(gr.cfg)


(***************************************************************************)
(* Properties of one get_response call.                                    *)
(***************************************************************************)

\* the attempts so far called the candidates 1, 2, 3, ... of the ranked
\* list, each once, and none of them after an attempt that succeeded
InRankedOrder ==
    /\ \A j \in 1..Len(gr.attempts) :
          /\ gr.attempts[j].cand = j
          /\ gr.attempts[j].model = Cands[j].model
    /\ \A j \in 1..(Len(gr.attempts) - 1) : ~gr.attempts[j].ok

\* what the candidate of attempt a produced
OutputOf(a) ==
    IF a.reply = "text" \/ a.payload.choices = "content" THEN ChoiceContent(a.cand)
    ELSE IF a.reply = "null" \/ a.payload.choices = "null" THEN NoneValue
    ELSE FlatResponse(a.cand)

\* C13: within one get_response call the candidates are attempted in the
\* strict order of the ranked list; the call returns the output of the first
\* candidate that succeeds and attempts no candidate after it.
C13_FirstSuccessInOrder ==
    /\ InRankedOrder
    /\ gr.st = "calling" => gr.idx = Len(gr.attempts) + 1
    /\ gr.st = "returned" =>
          /\ Len(gr.attempts) \in 1..Len(Cands)
          /\ gr.attempts[Len(gr.attempts)].ok
          /\ gr.value = OutputOf(gr.attempts[Len(gr.attempts)])

\* three models, the first two raise and the third succeeds
C13_Witness ==
    /\ gr.st = "returned"
    /\ Len(gr.cfg.models) = 3
    /\ Len(gr.attempts) = 3
    /\ gr.attempts[1].raised /\ gr.attempts[2].raised
    /\ gr.value = ChoiceContent(3)


\* C14: a failure of a candidate that is not at the last position advances
\* to the next candidate; get_response raises only after every candidate of
\* the list has been attempted once, and the exception it raises is the
\* failure of the last candidate.
C14_RaisesOnlyAfterLast ==
    LET n == Len(gr.attempts)
    IN  /\ (n > 0 /\ n < Len(Cands) /\ ~gr.attempts[n].ok) =>
              (gr.st = "calling" /\ gr.idx = n + 1)
        /\ gr.st = "raised" =>
              /\ n = Len(Cands)
              /\ \A j \in 1..n : gr.attempts[j].cand = j /\ ~gr.attempts[j].ok
              /\ gr.exc = CandidateFailure(Len(Cands))

\* all four candidates of an adapter raised
C14_Witness ==
    /\ gr.st = "raised"
    /\ Len(Cands) = 4
    /\ \A j \in 1..4 : gr.attempts[j].raised
    /\ gr.exc.cand = 4


\* the (endpoint, model) pairs the attempts so far were made with
PairsAttempted == { <<gr.attempts[j].ep, gr.attempts[j].model>> : j \in 1..Len(gr.attempts) }

\* C15: Meta and Grok try their candidates endpoint-major (endpoints outer,
\* models inner); get_response raises only after every (endpoint, model)
\* pair of the configuration has been attempted, and a success at any pair
\* returns at once, with no later pair attempted.
C15_EndpointMajor ==
    LET E == Len(gr.cfg.endpoints)
        M == Len(gr.cfg.models)
        n == Len(gr.attempts)
    IN  gr.name \in HttpAdapters =>
          /\ \A j \in 1..n :
                /\ gr.attempts[j].ep = gr.cfg.endpoints[((j - 1) \div M) + 1]
                /\ gr.attempts[j].model = gr.cfg.models[((j - 1) % M) + 1]
          /\ gr.st = "raised" =>
                /\ n = E * M
                /\ PairsAttempted =
                      { <<gr.cfg.endpoints[e], gr.cfg.models[m]>> : e \in 1..E, m \in 1..M }
          /\ \A j \in 1..n : gr.attempts[j].ok => (j = n /\ gr.st = "returned")

\* two endpoints with two models each: both models fail at the first
\* endpoint and the first model answers at the second one
C15_Witness ==
    /\ gr.name \in HttpAdapters
    /\ Len(gr.cfg.endpoints) = 2
    /\ gr.st = "returned"
    /\ Len(gr.attempts) = 3
    /\ gr.attempts[2].ep = gr.cfg.endpoints[1] /\ gr.attempts[2].model = gr.cfg.models[2]
    /\ gr.attempts[3].ep = gr.cfg.endpoints[2] /\ gr.attempts[3].model = gr.cfg.models[1]
    /\ gr.attempts[3].ok


\* the attempts of an HTTP adapter that read a JSON body
BodiesRead == { j \in 1..Len(gr.attempts) : gr.attempts[j].payload # NoPayload }

\* C16: a payload is mapped to exactly one outcome: a non-empty choices
\* array yields its first message content, otherwise a flat response field
\* yields that field, otherwise (an explicit error field included) the
\* candidate counts as failed.  A failed candidate that is not the last one
\* is followed by the next candidate, and at the last one the adapter raises
\* an Exception, which _safe_ask turns into that provider's error result.
C16_PayloadOutcome ==
    /\ \A j \in BodiesRead :
          LET a == gr.attempts[j]
              p == a.payload
          IN  /\ p.choices = "content" =>
                    (a.ok /\ j = Len(gr.attempts) /\ gr.value = ChoiceContent(j))
              /\ p.choices = "null" =>
                    (a.ok /\ j = Len(gr.attempts) /\ gr.value = NoneValue)
              /\ (p.choices \in {"absent", "empty"} /\ p.response) =>
                    (a.ok /\ j = Len(gr.attempts) /\ gr.value = FlatResponse(j))
              /\ (p.choices \in {"absent", "empty"} /\ ~p.response) => ~a.ok
              /\ p.choices = "malformed" => ~a.ok
              /\ ~a.ok =>
                    IF j < Len(Cands)
                    THEN \/ gr.st = "calling" /\ gr.idx = j + 1
                         \/ Len(gr.attempts) > j /\ gr.attempts[j + 1].cand = j + 1
                    ELSE gr.st = "raised" /\ gr.exc.type = "Exception"
    /\ gr.st = "returned" <=>
          (Len(gr.attempts) > 0 /\ gr.attempts[Len(gr.attempts)].ok)

\* the first candidate answers with an error body, the second with choices
C16_Witness ==
    /\ gr.st = "returned"
    /\ Len(gr.attempts) = 2
    /\ gr.attempts[1].payload = [choices |-> "absent", response |-> FALSE, error |-> TRUE]
    /\ ~gr.attempts[1].ok
    /\ gr.attempts[2].payload.choices = "content"
    /\ gr.value = ChoiceContent(2)


(***************************************************************************)
(* model_discovery.py: get_openai_models, with a clock in seconds.         *)
(***************************************************************************)

\* self.cache_duration
cache_duration == 3600
\* _retry_with_fallback(..., max_retries=2, ...)
max_retries == 2
\* _retry_with_fallback(discover_models, fallback_models, timeout=8)
timeout == 8
\* await asyncio.sleep(1)
retry_delay == 1

\* the ids and the patterns discover_models matches, as characters
IdChars(id) ==
    CASE id = "gpt-" -> <<"g","p","t","-">>
      [] id = "instruct" -> <<"i","n","s","t","r","u","c","t">>
      [] id = "turbo" -> <<"t","u","r","b","o">>
      [] id = "gpt-3.5" -> <<"g","p","t","-","3",".","5">>
      [] id = "16k" -> <<"1","6","k">>
      [] id = "gpt-4o-mini" -> <<"g","p","t","-","4","o","-","m","i","n","i">>
      [] id = "gpt-3.5-turbo-16k" ->
            <<"g","p","t","-","3",".","5","-","t","u","r","b","o","-","1","6","k">>
      [] id = "gpt-3.5-turbo-instruct" ->
            <<"g","p","t","-","3",".","5","-","t","u","r","b","o","-",
              "i","n","s","t","r","u","c","t">>
      [] id = "whisper-1" -> <<"w","h","i","s","p","e","r","-","1">>
      [] id = "dall-e-3" -> <<"d","a","l","l","-","e","-","3">>
      [] OTHER -> Chars(id)

\* str.lower() on the letters that occur in ids
Lower(cs) ==
    [ k \in DOMAIN cs |->
        CASE cs[k] = "G" -> "g" [] cs[k] = "P" -> "p" [] cs[k] = "T" -> "t"
          [] cs[k] = "I" -> "i" [] OTHER -> cs[k] ]

\* id.startswith(prefix)
StartsWith(id, prefix) ==
    /\ Len(IdChars(prefix)) <= Len(IdChars(id))
    /\ SubSeq(IdChars(id), 1, Len(IdChars(prefix))) = IdChars(prefix)

\* pattern in id
Contains(id, pattern) == IsSubstring(IdChars(pattern), IdChars(id))

\* model.id.startswith('gpt-') and 'instruct' not in model.id.lower()
IsChatModel(id) ==
    /\ StartsWith(id, "gpt-")
    /\ ~IsSubstring(IdChars("instruct"), Lower(IdChars(id)))

model_priority(id) ==
    IF Contains(id, "gpt-4") THEN (IF Contains(id, "turbo") THEN 1 ELSE 2)
    ELSE IF Contains(id, "gpt-3.5") THEN (IF Contains(id, "16k") THEN 4 ELSE 3)
    ELSE 5

\* list.sort(key=model_priority): stable, ascending
SortByPriority(ids) ==
    LET at(k) == SelectSeq(ids, LAMBDA id : model_priority(id) = k)
    IN  at(1) \o at(2) \o at(3) \o at(4) \o at(5)

fallback_models == <<"gpt-4o-mini", "gpt-4", "gpt-3.5-turbo">>

\* discover_models() on the ids client.models.list() returned
discover_models(ids) ==
    LET chat_models == SortByPriority(SelectSeq(ids, IsChatModel))
    IN  IF chat_models # << >> THEN chat_models ELSE fallback_models

\* what client.models.list() may return, in the order of models.data
LiveReplies ==
    { <<"whisper-1", "gpt-4", "gpt-3.5-turbo-instruct", "gpt-4-turbo">>,
      <<"whisper-1", "dall-e-3">> }

\* Python's None where a list was expected
NoneList == <<"None">>

\* _is_cache_valid('openai') at the current time
CacheValid == disc_cache.present /\ now - disc_cache.timestamp < cache_duration

\* the lists written to the cache less than cache_duration ago
RecentPopulations ==
    { populations[k].data : k \in { k \in 1..Len(populations) :
                                      now - populations[k].at < cache_duration } }

\* a get_openai_models coroutine suspended in its first attempt; timedOut
\* tells whether every attempt that ended so far ended by the timeout
NewCaller ==
    [st |-> "resolving", attempt |-> 0, deadline |-> now + timeout,
     started |-> now, timedOut |-> TRUE]

\* _set_cache_data('openai', data)
CacheSet(data) ==
    /\ disc_cache' = [present |-> TRUE, data |-> data, timestamp |-> now]
    /\ populations' = Append(populations, [data |-> data, at |-> now])

\* callers without its c-th coroutine
Without(c) == SubSeq(callers, 1, c - 1) \o SubSeq(callers, c + 1, Len(callers))

\* a call of get_openai_models: the cached list if the entry is valid,
\* otherwise the first attempt of _retry_with_fallback starts
GetOpenaiModels ==
    /\ nDiscovery < MaxDiscCalls
    /\ nDiscovery' = nDiscovery + 1
    /\ IF CacheValid
       THEN /\ returned' = [value |-> disc_cache.data, hit |-> TRUE, live |-> 0,
                            exhausted |-> FALSE, timedOut |-> FALSE,
                            elapsed |-> 0, window |-> RecentPopulations]
            /\ UNCHANGED callers
       ELSE /\ callers' = Append(callers, NewCaller)
            /\ UNCHANGED returned
    /\ UNCHANGED << now, disc_cache, populations, adapterVars, envVars, lifetimeVars, conversationVars, endpointVars, tokenVars, overlapVars, objVars, pc,
                    callKind, question, initIdx, taskVars, cons, result, outcome,
                    nCalls, constructed, called, delegated >>

\* result = await self._retry_with_fallback(...) has its value: it is
\* cached and returned.  The history keeps how many attempts were made,
\* whether all of them failed, whether all of them timed out, and how long
\* the call took.
Deliver(c, k, exhausted, value) ==
    /\ returned' = [value |-> value, hit |-> FALSE, live |-> k.attempt + 1,
                    exhausted |-> exhausted, timedOut |-> exhausted /\ k.timedOut,
                    elapsed |-> now - k.started, window |-> {}]
    /\ callers' = Without(c)
    /\ CacheSet(value)

\* client.models.list() answers before the timeout
LiveSucceeds(c, ids) ==
    /\ c \in DOMAIN callers
    /\ callers[c].st = "resolving"
    /\ now < callers[c].deadline
    /\ Deliver(c, callers[c], FALSE, discover_models(ids))
    /\ UNCHANGED << now, nDiscovery, adapterVars, envVars, lifetimeVars, conversationVars, endpointVars, tokenVars, overlapVars, objVars, pc, callKind,
                    question, initIdx, taskVars, cons, result, outcome, nCalls,
                    constructed, called, delegated >>

\* variant: the last attempt is taken to be one further
IsFinalAttemptOneMore(attempt) == attempt = max_retries + 1

\* if attempt == max_retries
IsFinalAttempt(attempt) == attempt = max_retries

\* variant: the pause grows with the attempt
BackoffDelayGrows(attempt) == retry_delay * (attempt + 2)

\* await asyncio.sleep(1) after a failed attempt
BackoffDelay(attempt) == retry_delay

\* the except clauses: the fallback at the last attempt, otherwise sleep
AttemptFailed(c, timedOut) ==
    LET k == [callers[c] EXCEPT !.timedOut = @ /\ timedOut]
    IN  IF IsFinalAttempt(k.attempt)
        THEN Deliver(c, k, TRUE, fallback_models)
        ELSE /\ callers' = [callers EXCEPT ![c] =
                              [k EXCEPT !.st = "sleeping",
                                        !.deadline = now + BackoffDelay(k.attempt)]]
             /\ UNCHANGED << disc_cache, populations, returned >>

\* the attempt raises (network, authentication, missing library)
LiveRaises(c) ==
    /\ c \in DOMAIN callers
    /\ callers[c].st = "resolving"
    /\ now < callers[c].deadline
    /\ AttemptFailed(c, FALSE)
    /\ UNCHANGED << now, nDiscovery, adapterVars, envVars, lifetimeVars, conversationVars, endpointVars, tokenVars, overlapVars, objVars, pc, callKind,
                    question, initIdx, taskVars, cons, result, outcome, nCalls,
                    constructed, called, delegated >>

\* asyncio.wait_for gives up on the attempt
LiveTimesOut(c) ==
    /\ c \in DOMAIN callers
    /\ callers[c].st = "resolving"
    /\ now = callers[c].deadline
    /\ AttemptFailed(c, TRUE)
    /\ UNCHANGED << now, nDiscovery, adapterVars, envVars, lifetimeVars, conversationVars, endpointVars, tokenVars, overlapVars, objVars, pc, callKind,
                    question, initIdx, taskVars, cons, result, outcome, nCalls,
                    constructed, called, delegated >>

\* the sleep is over: the next round of for attempt in range(max_retries + 1),
\* or the end of the loop, where the function returns None
RetryWakes(c) ==
    /\ c \in DOMAIN callers
    /\ callers[c].st = "sleeping"
    /\ now = callers[c].deadline
    /\ IF callers[c].attempt + 1 <= max_retries
       THEN /\ callers' = [callers EXCEPT ![c] =
                              [@ EXCEPT !.st = "resolving", !.attempt = @ + 1,
                                        !.deadline = now + timeout]]
            /\ UNCHANGED << disc_cache, populations, returned >>
       ELSE Deliver(c, callers[c], TRUE, NoneList)
    /\ UNCHANGED << now, nDiscovery, adapterVars, envVars, lifetimeVars, conversationVars, endpointVars, tokenVars, overlapVars, objVars, pc, callKind,
                    question, initIdx, taskVars, cons, result, outcome, nCalls,
                    constructed, called, delegated >>

\* the deadline that comes first among the waiting coroutines
NextDeadline ==
    LET ds == { callers[c].deadline : c \in DOMAIN callers }
    IN  CHOOSE d \in ds : \A e \in ds : d <= e

\* the steps of the clock while nothing is in progress: up to the last
\* second of the cache entry's validity, or past it
IdleSteps == {cache_duration - 1, cache_duration}

\* time passes: up to the next deadline while a coroutine waits, by about
\* cache_duration while nothing is in progress
Tick ==
    /\ IF callers # << >>
       THEN /\ now < NextDeadline
            /\ now' = NextDeadline
       ELSE /\ disc_cache.present
            /\ nDiscovery < MaxDiscCalls   \* a call is still to come
            /\ \E d \in IdleSteps : now' = now + d
    /\ now' <= MaxTime
    /\ UNCHANGED << disc_cache, callers, nDiscovery, returned, populations,
                    adapterVars, envVars, lifetimeVars, conversationVars, endpointVars, tokenVars, overlapVars, objVars, pc, callKind, question, initIdx,
                    taskVars, cons, result, outcome, nCalls, constructed, called,
                    delegated >>

\* the singleton as ModelDiscovery.__init__ leaves it, for a process that
\* has the OpenAI credential
InitDiscovery ==
    /\ apiKeys = {"chatgpt"}
    /\ missingDeps = {}
    /\ InitObject
    /\ gr = NoRun
    /\ now = 0
    /\ disc_cache = EmptyCache
    /\ callers = << >>
    /\ nDiscovery = 0
    /\ returned = NoReturn
    /\ populations = << >>
    /\ inits = << >>
    /\ stored = [p \in Providers |-> << >>]
    /\ tm = NoTokenCall
    /\ ep = NoProbe
    /\ cm = NoManager
    /\ ad = NoAdapters

NextDiscovery ==
    \/ GetOpenaiModels
    \/ \E c \in 1..MaxDiscCalls : \E ids \in LiveReplies : LiveSucceeds(c, ids)
    \/ \E c \in 1..MaxDiscCalls : LiveRaises(c)
    \/ \E c \in 1..MaxDiscCalls : LiveTimesOut(c)
    \/ \E c \in 1..MaxDiscCalls : RetryWakes(c)
    \/ Tick

SpecDiscovery == InitDiscovery /\ [][NextDiscovery]_vars

(***************************************************************************)
(* Properties of get_openai_models.                                        *)
(***************************************************************************)

\* some call of get_openai_models has returned
SomeReturned == returned # NoReturn

\* C17: get_models never raises: on a cache miss it makes at most 3 live
\* attempts (the first and 2 retries), each bounded by the timeout; if every
\* attempt raises or times out it returns the hardcoded fallback list, and it
\* always terminates with a non-empty list.
C17_FallbackAfterThreeAttempts ==
    /\ \A c \in DOMAIN callers :
          /\ callers[c].attempt <= max_retries
          /\ callers[c].st = "resolving" =>
                (now <= callers[c].deadline /\ callers[c].deadline - now <= timeout)
    /\ SomeReturned =>
          /\ returned.value \notin { << >>, NoneList }
          /\ returned.live <= max_retries + 1
          /\ returned.hit => returned.live = 0
          /\ returned.exhausted =>
                (returned.live = max_retries + 1 /\ returned.value = fallback_models)

\* three attempts, not all of them timeouts, and the fallback list
C17_Witness ==
    /\ returned.exhausted
    /\ ~returned.timedOut
    /\ returned.live = 3
    /\ returned.elapsed > 0
    /\ returned.value = fallback_models

\* C18 as stated: when every live attempt times out, the fallback list is
\* returned within timeout x retries, plus the backoff sleeps as margin.
C18_WithinTimeoutTimesRetries ==
    (returned.exhausted /\ returned.timedOut) =>
        returned.elapsed <= timeout * max_retries + max_retries * retry_delay

\* C18: when every live attempt times out, the fallback list is returned
\* within timeout x (retries + 1), the three attempts, plus the two backoff
\* sleeps between them.
C18_WithinTimeoutTimesAttempts ==
    (returned.exhausted /\ returned.timedOut) =>
        /\ returned.value = fallback_models
        /\ returned.elapsed <= timeout * (max_retries + 1) + max_retries * retry_delay

\* every attempt timed out and the call took the whole of the bound
C18_Witness ==
    /\ returned.exhausted
    /\ returned.timedOut
    /\ returned.value = fallback_models
    /\ returned.elapsed = timeout * (max_retries + 1) + max_retries * retry_delay

\* C19: a call made less than cache_duration after a completed call wrote
\* the cache performs no live resolution and returns the list that was
\* written.
C19_SameListWithinTtl ==
    \A L \in returned.window : returned.live = 0 /\ returned.value = L

\* C20: under overlapping callers only one live resolution is in progress
\* for the key, and the cache is written at most once per cache_duration.
C20_SingleFlight ==
    /\ Len(callers) <= 1
    /\ \A i, j \in 1..Len(populations) :
          i < j => populations[j].at - populations[i].at >= cache_duration


\* C21: cache population is first-writer-wins: while the key holds an
\* unexpired entry, no later write changes its data or its timestamp; and
\* an entry always carries a data list together with its timestamp.
C21_FirstWriterWins ==
    /\ \A j \in 2..Len(populations) :
          (populations[j].at - populations[j - 1].at < cache_duration) =>
              populations[j] = populations[j - 1]
    /\ disc_cache.present =>
          /\ populations # << >>
          /\ disc_cache.data = populations[Len(populations)].data
          /\ disc_cache.timestamp = populations[Len(populations)].at


(***************************************************************************)
(* app.py: requests run on threads of their own, each with a fresh event   *)
(* loop, on the one AICompare object.  The first calls may overlap.        *)
(***************************************************************************)

\* requests that are in flight together
MaxOverlap == 2

\* the coroutine of a request at await self._ensure_models_initialized()
NewInit == [pc |-> "ensure", idx |-> 0, inst |-> 0]

\* a request arrives and calls ask_all or get_available_models
OverlapStart ==
    /\ Len(inits) < MaxOverlap
    /\ inits' = Append(inits, NewInit)
    /\ UNCHANGED << adapterVars, discVars, envVars, lifetimeVars, conversationVars, endpointVars, tokenVars, objVars, stored, pc, callKind,
                    question, initIdx, taskVars, cons, result, outcome, nCalls,
                    constructed, called, delegated >>

\* if not self._models_initialized
OverlapEnsure(c) ==
    /\ c \in DOMAIN inits
    /\ inits[c].pc = "ensure"
    /\ inits' = [inits EXCEPT ![c] =
                    IF models_initialized THEN [@ EXCEPT !.pc = "ready"]
                    ELSE [@ EXCEPT !.pc = "init", !.idx = 1]]
    /\ UNCHANGED << adapterVars, discVars, envVars, lifetimeVars, conversationVars, endpointVars, tokenVars, objVars, stored, pc, callKind,
                    question, initIdx, taskVars, cons, result, outcome, nCalls,
                    constructed, called, delegated >>

\* await model_instance._get_models() suspends where the list has to be
\* resolved live
SuspendsInDiscovery(name) == name = "chatgpt" /\ cache[name] = NoConfig

\* self.models[name] = model_instance, with the list the adapter holds
StoreAdapter(name, inst, cfg) ==
    /\ models' = DictSet(models, name)
    /\ adapterModels' = [adapterModels EXCEPT ![name] = cfg]
    /\ cache' = [cache EXCEPT ![name] = cfg]
    /\ stored' = [stored EXCEPT ![name] = Append(@, inst)]

\* one iteration of the loop of _initialize_available_models in request c,
\* up to the await that suspends it
OverlapInitProvider(c) ==
    /\ c \in DOMAIN inits
    /\ inits[c].pc = "init"
    /\ inits[c].idx \in 1..Len(model_classes)
    /\ LET name == model_classes[inits[c].idx]
           err == ConstructionError(name)
           inst == constructed[name] + 1
       IN  /\ constructed' = [constructed EXCEPT ![name] = inst]
           /\ IF err = ""
              THEN /\ model_providers' = [model_providers EXCEPT ![name] = provider_map(name)]
                   /\ IF SuspendsInDiscovery(name)
                      THEN /\ inits' = [inits EXCEPT ![c] =
                                           [@ EXCEPT !.pc = "resolving", !.inst = inst]]
                           /\ UNCHANGED << models, adapterModels, cache, stored >>
                      ELSE /\ \E cfg \in (IF cache[name] # NoConfig THEN {cache[name]}
                                                                    ELSE Resolved(name)) :
                                StoreAdapter(name, inst, cfg)
                           /\ inits' = [inits EXCEPT ![c] = [@ EXCEPT !.idx = @ + 1]]
              ELSE /\ inits' = [inits EXCEPT ![c] =
                                   IF err \in SwallowedAtConstruction
                                   THEN [@ EXCEPT !.idx = @ + 1]
                                   ELSE [@ EXCEPT !.pc = "raised"]]
                   /\ UNCHANGED << models, adapterModels, model_providers, cache, stored >>
    /\ UNCHANGED << adapterVars, discVars, envVars, lifetimeVars, conversationVars, endpointVars, tokenVars, models_initialized, pc, callKind,
                    question, initIdx, taskVars, cons, result, outcome, nCalls,
                    called, delegated >>

\* the live resolution of request c is over: the adapter keeps the list and
\* is stored
OverlapResolved(c) ==
    /\ c \in DOMAIN inits
    /\ inits[c].pc = "resolving"
    /\ LET name == model_classes[inits[c].idx]
       IN  \E cfg \in Resolved(name) : StoreAdapter(name, inits[c].inst, cfg)
    /\ inits' = [inits EXCEPT ![c] = [@ EXCEPT !.pc = "init", !.idx = @ + 1, !.inst = 0]]
    /\ UNCHANGED << adapterVars, discVars, envVars, lifetimeVars, conversationVars, endpointVars, tokenVars, models_initialized, model_providers,
                    pc, callKind, question, initIdx, taskVars, cons, result, outcome,
                    nCalls, constructed, called, delegated >>

\* the loop of request c is over: self._models_initialized = True
OverlapInitDone(c) ==
    /\ c \in DOMAIN inits
    /\ inits[c].pc = "init"
    /\ inits[c].idx = Len(model_classes) + 1
    /\ models_initialized' = TRUE
    /\ inits' = [inits EXCEPT ![c] = [@ EXCEPT !.pc = "ready", !.idx = 0]]
    /\ UNCHANGED << adapterVars, discVars, envVars, lifetimeVars, conversationVars, endpointVars, tokenVars, models, adapterModels,
                    model_providers, cache, stored, pc, callKind, question, initIdx,
                    taskVars, cons, result, outcome, nCalls, constructed, called,
                    delegated >>

\* the object as AICompare.__init__ leaves it, every client library installed
InitOverlap ==
    /\ apiKeys \in { K \in SUBSET Providers : Cardinality(K) <= MaxKeys }
    /\ missingDeps = {}
    /\ InitObject
    /\ gr = NoRun
    /\ now = 0
    /\ disc_cache = EmptyCache
    /\ callers = << >>
    /\ nDiscovery = 0
    /\ returned = NoReturn
    /\ populations = << >>
    /\ inits = << >>
    /\ stored = [p \in Providers |-> << >>]
    /\ tm = NoTokenCall
    /\ ep = NoProbe
    /\ cm = NoManager
    /\ ad = NoAdapters

NextOverlap ==
    \/ OverlapStart
    \/ \E c \in 1..MaxOverlap : OverlapEnsure(c)
    \/ \E c \in 1..MaxOverlap : OverlapInitProvider(c)
    \/ \E c \in 1..MaxOverlap : OverlapResolved(c)
    \/ \E c \in 1..MaxOverlap : OverlapInitDone(c)

SpecOverlap == InitOverlap /\ [][NextOverlap]_vars

\* C22: each provider adapter is constructed at most once per orchestrator
\* and the map is populated at most once per key, also when the first calls
\* overlap; an entry once stored is never replaced by another instance.
C22_AdapterConstructedOnce ==
    \A p \in Providers :
        /\ p \in apiKeys => constructed[p] <= 1
        /\ Len(stored[p]) <= 1


(***************************************************************************)
(* token_manager.py: validate_and_truncate.  A text is the sequence of its *)
(* sentences (the pieces re.split(r'(?<=[.!?])\s+') gives); a sentence has *)
(* n whitespace-separated words, each of which holds per words for the     *)
(* counter's r'\b\w+\b' (2 for a word like "built-in" or "don't").         *)
(***************************************************************************)

\* sentences in a text
MaxSentences == 5

\* the sentences texts are made of
SentenceKinds ==
    { [n |-> 1, per |-> 1], [n |-> 90, per |-> 1], [n |-> 2900, per |-> 1],
      [n |-> 3000, per |-> 1], [n |-> 6000, per |-> 1], [n |-> 3000, per |-> 2] }

Texts == UNION { [1..k -> SentenceKinds] : k \in 1..MaxSentences }

\* the limits the orchestrator's calls come with: provider and model name
\* as _safe_ask passes them
Limits == { get_model_limit(provider_map(p), p) : p \in Providers }

\* len(re.findall(r'\b\w+\b', ...)) of a run of sentences or parts
RECURSIVE RegexWords(_)
RegexWords(seq) ==
    IF seq = << >> THEN 0 ELSE Head(seq).n * Head(seq).per + RegexWords(Tail(seq))

\* len(text.split()) of a run of sentences
RECURSIVE SplitWords(_)
SplitWords(seq) ==
    IF seq = << >> THEN 0 ELSE Head(seq).n + SplitWords(Tail(seq))

\* the words the notices add for the counter
MarkerWords(marker) ==
    CASE marker = "... [Content truncated to fit model limits]" -> 6
      [] marker = "[Middle content truncated]" -> 3
      [] marker = "[Some content truncated]" -> 3
      [] marker = "[Middle content truncated to fit model limits]" -> 7
      [] OTHER -> 0

\* a piece of the output: words of sentence src, all of them or a run from
\* its start or its end
Part(src, s, kept) ==
    [src |-> src, n |-> kept, per |-> s.per, whole |-> kept = s.n]

\* the text as it is
Unchanged(text) ==
    [parts |-> [i \in DOMAIN text |-> Part(i, text[i], text[i].n)], marker |-> ""]

\* count_tokens of an output string
OutputTokens(out) == count_tokens(RegexWords(out.parts) + MarkerWords(out.marker))

\* the output read as a text again
AsText(out) == [i \in DOMAIN out.parts |-> [n |-> out.parts[i].n, per |-> out.parts[i].per]]

\* ' '.join(words[:target_words]) over the sentences of the text
FirstWords(text, target_words) ==
    LET before(i) == SplitWords(SubSeq(text, 1, i - 1))
        kept(i) == IF target_words - before(i) <= 0 THEN 0
                   ELSE IF target_words - before(i) >= text[i].n THEN text[i].n
                   ELSE target_words - before(i)
        last == { i \in DOMAIN text : kept(i) > 0 }
    IN  [ i \in 1..Cardinality(last) |-> Part(i, text[i], kept(i)) ]

\* variant: a sentence that does not fit is passed over
RECURSIVE PackSkipping(_, _)
PackSkipping(middle, remaining) ==
    IF middle = << >> THEN 0
    ELSE IF count_tokens(RegexWords(<<Head(middle)>>)) <= remaining
    THEN 1 + PackSkipping(Tail(middle), remaining - count_tokens(RegexWords(<<Head(middle)>>)))
    ELSE PackSkipping(Tail(middle), remaining)

\* the loop over middle_sentences: how many of them are added before the
\* break
RECURSIVE Pack(_, _)
Pack(middle, remaining) ==
    IF middle = << >> THEN 0
    ELSE IF count_tokens(RegexWords(<<Head(middle)>>)) <= remaining
    THEN 1 + Pack(Tail(middle), remaining - count_tokens(RegexWords(<<Head(middle)>>)))
    ELSE 0


\* available_tokens = max_tokens - 50
ReserveTokens == 50

\* if remaining_tokens > 100 and middle_sentences
MiddleThreshold == 100

\* int(tokens * 0.75)
target_words(tokens) == (tokens * 3) \div 4

\* TokenManager._intelligent_truncate on a text that is over max_tokens
intelligent_truncate(text, max_tokens) ==
    LET available_tokens == max_tokens - ReserveTokens
        n == Len(text)
        first_tokens == count_tokens(RegexWords(<<text[1]>>))
        last_tokens == count_tokens(RegexWords(<<text[n]>>))
        half == available_tokens \div 2
        first_part == IF first_tokens > half /\ target_words(half) < text[1].n
                      THEN Part(1, text[1], target_words(half))
                      ELSE Part(1, text[1], text[1].n)
        last_part == IF last_tokens > half /\ target_words(half) < text[n].n
                     THEN Part(n, text[n], target_words(half))
                     ELSE Part(n, text[n], text[n].n)
        remaining_tokens == available_tokens - first_tokens - last_tokens
        middle_sentences == SubSeq(text, 2, n - 1)
        k == Pack(middle_sentences, remaining_tokens)
    IN  IF n <= 2
        THEN [parts |-> FirstWords(text, target_words(available_tokens)),
              marker |-> "... [Content truncated to fit model limits]"]
        ELSE IF first_tokens + last_tokens > available_tokens
        THEN [parts |-> <<first_part, last_part>>,
              marker |-> "[Middle content truncated]"]
        ELSE IF remaining_tokens > MiddleThreshold /\ middle_sentences # << >> /\ k > 0
        THEN [parts |-> <<Part(1, text[1], text[1].n)>>
                        \o [j \in 1..k |-> Part(j + 1, text[j + 1], text[j + 1].n)]
                        \o <<Part(n, text[n], text[n].n)>>,
              marker |-> "[Some content truncated]"]
        ELSE [parts |-> <<Part(1, text[1], text[1].n), Part(n, text[n], text[n].n)>>,
              marker |-> "[Middle content truncated to fit model limits]"]

\* variant: a text at the limit is truncated as well
validate_and_truncate_strict(text, limit) ==
    IF count_tokens(RegexWords(text)) < limit
    THEN [out |-> Unchanged(text), flag |-> FALSE]
    ELSE [out |-> intelligent_truncate(text, limit), flag |-> TRUE]

\* TokenManager.validate_and_truncate, for the limit get_model_limit gave
validate_and_truncate(text, limit) ==
    IF count_tokens(RegexWords(text)) <= limit
    THEN [out |-> Unchanged(text), flag |-> FALSE]
    ELSE [out |-> intelligent_truncate(text, limit), flag |-> TRUE]

\* validate_and_truncate is called on the text
Validate ==
    /\ tm.st = "input"
    /\ LET r == validate_and_truncate(tm.text, tm.limit)
       IN  tm' = [tm EXCEPT !.st = "done", !.out = r.out, !.flag = r.flag]
    /\ UNCHANGED << adapterVars, discVars, envVars, lifetimeVars, conversationVars, endpointVars, overlapVars, objVars, pc, callKind,
                    question, initIdx, taskVars, cons, result, outcome, nCalls,
                    constructed, called, delegated >>

\* validate_and_truncate is called on a text it returned as it was
ValidateAgain ==
    /\ tm.st = "done"
    /\ ~tm.flag
    /\ LET r == validate_and_truncate(AsText(tm.out), tm.limit)
       IN  tm' = [tm EXCEPT !.st = "again", !.out2 = r.out, !.flag2 = r.flag]
    /\ UNCHANGED << adapterVars, discVars, envVars, lifetimeVars, conversationVars, endpointVars, overlapVars, objVars, pc, callKind,
                    question, initIdx, taskVars, cons, result, outcome, nCalls,
                    constructed, called, delegated >>

\* a TokenManager and a text to validate for one of the providers
InitTokens ==
    /\ apiKeys = {}
    /\ missingDeps = {}
    /\ InitObject
    /\ gr = NoRun
    /\ now = 0
    /\ disc_cache = EmptyCache
    /\ callers = << >>
    /\ nDiscovery = 0
    /\ returned = NoReturn
    /\ populations = << >>
    /\ inits = << >>
    /\ stored = [p \in Providers |-> << >>]
    /\ ep = NoProbe
    /\ cm = NoManager
    /\ ad = NoAdapters
    /\ tm \in { [NoTokenCall EXCEPT !.st = "input", !.text = t, !.limit = L] :
                  t \in Texts, L \in Limits }

NextTokens == Validate \/ ValidateAgain

SpecTokens == InitTokens /\ [][NextTokens]_vars

\* the estimated tokens of the input of the call
InputTokens == count_tokens(RegexWords(tm.text))

\* C23: for a text whose estimated token count exceeds the limit,
\* validate_and_truncate returns flag True and an output whose estimated
\* token count is at most the limit, with a bracketed truncation marker.
C23_TruncatedWithinLimit ==
    (tm.st = "done" /\ InputTokens > tm.limit) =>
        /\ tm.flag
        /\ MarkerWords(tm.out.marker) > 0
        /\ OutputTokens(tm.out) <= tm.limit

\* C24: validate_and_truncate returns the text unchanged with flag False
\* exactly when its estimated token count is at most the limit, and applied
\* again to what it returned it returns the same text with flag False.
C24_UnchangedUnderLimit ==
    /\ tm.st # "input" =>
          /\ ~tm.flag <=> InputTokens <= tm.limit
          /\ ~tm.flag => (tm.out.marker = "" /\ AsText(tm.out) = tm.text)
          /\ (tm.out.marker = "" /\ AsText(tm.out) = tm.text) => ~tm.flag
    /\ tm.st = "again" =>
          /\ ~tm.flag2
          /\ tm.out2 = tm.out

\* a text exactly at the limit went through twice
C24_Witness ==
    /\ tm.st = "again"
    /\ InputTokens = tm.limit
    /\ AsText(tm.out2) = tm.text


\* the sum of count_tokens over the sentences of a run
RECURSIVE SentenceTokens(_)
SentenceTokens(seq) ==
    IF seq = << >> THEN 0
    ELSE count_tokens(RegexWords(<<Head(seq)>>)) + SentenceTokens(Tail(seq))

\* the call took the multi-sentence path: more than two sentences, and the
\* first and the last one together within the available budget
MultiSentencePath ==
    /\ tm.st = "done"
    /\ tm.flag
    /\ Len(tm.text) > 2
    /\ SentenceTokens(<<tm.text[1], tm.text[Len(tm.text)]>>) <= tm.limit - ReserveTokens

\* the first and the last sentence are in the output, word for word
FirstAndLastVerbatim ==
    LET parts == tm.out.parts
    IN  /\ Len(parts) >= 2
        /\ parts[1].src = 1 /\ parts[1].whole
        /\ parts[Len(parts)].src = Len(tm.text) /\ parts[Len(parts)].whole

\* the middle sentences the output holds
KeptMiddle == { tm.out.parts[i].src : i \in 2..(Len(tm.out.parts) - 1) }

\* the budget for middle sentences, and what is left of it after packing
MiddleBudget ==
    tm.limit - ReserveTokens - SentenceTokens(<<tm.text[1], tm.text[Len(tm.text)]>>)

BudgetLeft == MiddleBudget - SentenceTokens([i \in 1..Cardinality(KeptMiddle) |-> tm.text[i + 1]])

\* the middle sentences that were left out
OmittedMiddle == (2..(Len(tm.text) - 1)) \ KeptMiddle

\* C27 as stated: in the multi-sentence path the first and the last
\* sentence are kept verbatim and no omitted middle sentence still fits in
\* the budget left after packing.
C27_NoFittingSentenceOmitted ==
    MultiSentencePath =>
        /\ FirstAndLastVerbatim
        /\ \A j \in OmittedMiddle : SentenceTokens(<<tm.text[j]>>) > BudgetLeft

\* C27: in the multi-sentence path the first and the last sentence are kept
\* verbatim; if the budget left by them exceeds 100 tokens, the output holds
\* the longest leading run of middle sentences whose token counts add up to
\* at most that budget (packing stops at the first one that does not fit),
\* and otherwise no middle sentence.
C27_LeadingRunPacked ==
    MultiSentencePath =>
        /\ FirstAndLastVerbatim
        /\ \E k \in 0..(Len(tm.text) - 2) :
              /\ KeptMiddle = 2..(k + 1)
              /\ \A i \in 2..(Len(tm.out.parts) - 1) :
                    tm.out.parts[i].src = i /\ tm.out.parts[i].whole
              /\ SentenceTokens(SubSeq(tm.text, 2, k + 1)) <= MiddleBudget
              /\ IF MiddleBudget > MiddleThreshold
                 THEN \/ k = Len(tm.text) - 2
                      \/ SentenceTokens(SubSeq(tm.text, 2, k + 2)) > MiddleBudget
                 ELSE k = 0

\* a middle sentence is packed, the next one does not fit, and the one
\* after it is left out although it would fit
C27_Witness ==
    /\ MultiSentencePath
    /\ KeptMiddle = {2}
    /\ SentenceTokens(<<tm.text[3]>>) > BudgetLeft
    /\ SentenceTokens(<<tm.text[4]>>) <= BudgetLeft
    /\ Len(tm.text) = 5

\* ---------------------------------------------------------------------
\* ModelDiscovery.discover_endpoints: which of the given base URLs answer
\* ---------------------------------------------------------------------

\* base URLs in one call
MaxUrls == 3

\* the base URLs callers pass
BaseUrls == {"https://api.x.ai/v1", "https://api.together.xyz/v1"}

\* what session.get(f"{url}/models", ..., timeout=5) does: it raises
\* (connection error, timeout) or gives a response with a status
ProbeOutcomes ==
    { [raised |-> TRUE, status |-> 0] } \cup
    { [raised |-> FALSE, status |-> c] : c \in {200, 401, 499, 500, 503} }

\* variant: a 500 is accepted
AcceptsUpTo500(o) == ~o.raised /\ o.status <= 500

\* if response.status < 500, inside the try
Accepts(o) == ~o.raised /\ o.status < 500

\* discover_endpoints(base_urls, api_key) is called: working_endpoints = []
DiscoverEndpointsStart ==
    /\ ep.st = "idle"
    /\ \E k \in 0..MaxUrls : \E urls \in [1..k -> BaseUrls] :
          ep' = [st |-> "probing", base_urls |-> urls, probes |-> << >>,
                 working |-> << >>]
    /\ UNCHANGED << adapterVars, discVars, envVars, lifetimeVars, conversationVars, tokenVars, overlapVars, objVars, pc, callKind,
                    question, initIdx, taskVars, cons, result, outcome, nCalls,
                    constructed, called, delegated >>

\* one turn of the loop: the next url is probed; it is appended when the
\* response is accepted, and an exception only moves on to the next url
ProbeUrl ==
    /\ ep.st = "probing"
    /\ Len(ep.probes) < Len(ep.base_urls)
    /\ \E o \in ProbeOutcomes :
          LET url == ep.base_urls[Len(ep.probes) + 1]
          IN  ep' = [ep EXCEPT
                       !.probes = Append(@, [url |-> url, raised |-> o.raised,
                                             status |-> o.status]),
                       !.working = IF Accepts(o) THEN Append(@, url) ELSE @]
    /\ UNCHANGED << adapterVars, discVars, envVars, lifetimeVars, conversationVars, tokenVars, overlapVars, objVars, pc, callKind,
                    question, initIdx, taskVars, cons, result, outcome, nCalls,
                    constructed, called, delegated >>

\* after the loop: raise when working_endpoints is empty, else return it
DiscoverEndpointsEnd ==
    /\ ep.st = "probing"
    /\ Len(ep.probes) = Len(ep.base_urls)
    /\ ep' = [ep EXCEPT !.st = IF ep.working = << >> THEN "raised" ELSE "returned"]
    /\ UNCHANGED << adapterVars, discVars, envVars, lifetimeVars, conversationVars, tokenVars, overlapVars, objVars, pc, callKind,
                    question, initIdx, taskVars, cons, result, outcome, nCalls,
                    constructed, called, delegated >>

\* a ModelDiscovery, and no call made yet
InitEndpoints ==
    /\ apiKeys = {}
    /\ missingDeps = {}
    /\ InitObject
    /\ gr = NoRun
    /\ now = 0
    /\ disc_cache = EmptyCache
    /\ callers = << >>
    /\ nDiscovery = 0
    /\ returned = NoReturn
    /\ populations = << >>
    /\ inits = << >>
    /\ stored = [p \in Providers |-> << >>]
    /\ ep = NoProbe
    /\ tm = NoTokenCall
    /\ cm = NoManager
    /\ ad = NoAdapters

NextEndpoints == DiscoverEndpointsStart \/ ProbeUrl \/ DiscoverEndpointsEnd

SpecEndpoints == InitEndpoints /\ [][NextEndpoints]_vars

\* the urls of the probes that answered with a status below 500
RECURSIVE AnsweredBelow500(_)
AnsweredBelow500(probes) ==
    IF probes = << >> THEN << >>
    ELSE IF ~Head(probes).raised /\ Head(probes).status < 500
         THEN <<Head(probes).url>> \o AnsweredBelow500(Tail(probes))
         ELSE AnsweredBelow500(Tail(probes))

MaxMessages == 3

\* the messages callers save
Messages == [role : {"user", "assistant"}, content : {"Message 1", "Response 1"}]

\* session_data as create_session builds it
NewSession == [state |-> "ok", messages |-> << >>, message_count |-> 0]

\* _save_session: the file after the call. When the write raises (the disk
\* refuses it, or json.dump meets a value it cannot serialise), the
\* exception is swallowed: the backup of an existing file is put back, and
\* where there was no file a partly written one may be left behind.
save_session(file, session_data, dumps, partial) ==
    IF dumps THEN session_data
    ELSE IF file.state = "absent" /\ partial THEN [NoSession EXCEPT !.state = "corrupt"]
    ELSE file

\* load_session(session_id, force_reload): the session data returned, with
\* state "absent" standing for None
load_session(s, force_reload) ==
    IF ~force_reload /\ cm.cache[s].state = "ok" THEN cm.cache[s]
    ELSE IF cm.disk[s].state = "ok" THEN cm.disk[s]
    ELSE NoSession

\* what load_session leaves in conversation_cache
CacheAfterLoad(s, force_reload) ==
    IF ~force_reload /\ cm.cache[s].state = "ok" THEN cm.cache
    ELSE IF cm.disk[s].state = "ok" THEN [cm.cache EXCEPT ![s] = cm.disk[s]]
    ELSE cm.cache

ManagerFrame ==
    UNCHANGED << adapterVars, discVars, envVars, lifetimeVars, tokenVars, endpointVars, overlapVars, objVars, pc, callKind,
                 question, initIdx, taskVars, cons, result, outcome, nCalls,
                 constructed, called, delegated >>

\* create_session: a new id, the empty session saved and cached
CreateSession ==
    /\ cm.created < MaxSessions
    /\ \E dumps \in BOOLEAN, partial \in BOOLEAN :
          LET s == cm.created + 1
          IN  cm' = [cm EXCEPT
                       !.created = s,
                       !.disk[s] = save_session(cm.disk[s], NewSession, dumps, partial),
                       !.cache[s] = NewSession]
    /\ ManagerFrame

\* save_message: reload from disk, append, count, save, cache. Nothing
\* happens when the reload gives None.
SaveMessage ==
    /\ \E s \in 1..cm.created, m \in Messages, dumps \in BOOLEAN :
          LET loaded == load_session(s, TRUE)
              session_data == [loaded EXCEPT
                                 !.messages = Append(@, m),
                                 !.message_count = Len(loaded.messages) + 1]
          IN  /\ Len(loaded.messages) < MaxMessages
              /\ cm' = IF loaded.state # "ok"
                       THEN [cm EXCEPT !.last = [session |-> s, forced |-> TRUE,
                                                 messages |-> << >>]]
                       ELSE [cm EXCEPT
                               !.disk[s] = save_session(cm.disk[s], session_data, dumps, FALSE),
                               !.cache[s] = session_data,
                               !.last = [session |-> s, forced |-> TRUE,
                                         messages |-> session_data.messages]]
    /\ ManagerFrame

\* get_conversation_history(session_id, force_reload=...)
GetConversationHistory ==
    /\ \E s \in 1..cm.created, force_reload \in BOOLEAN :
          cm' = [cm EXCEPT
                   !.cache = CacheAfterLoad(s, force_reload),
                   !.last = [session |-> s, forced |-> force_reload,
                             messages |-> load_session(s, force_reload).messages]]
    /\ ManagerFrame

\* a ConversationManager on an empty storage directory
InitConversations ==
    /\ apiKeys = {}
    /\ missingDeps = {}
    /\ InitObject
    /\ gr = NoRun
    /\ now = 0
    /\ disc_cache = EmptyCache
    /\ callers = << >>
    /\ nDiscovery = 0
    /\ returned = NoReturn
    /\ populations = << >>
    /\ inits = << >>
    /\ stored = [p \in Providers |-> << >>]
    /\ ep = NoProbe
    /\ cm = NoManager
    /\ tm = NoTokenCall
    /\ ad = NoAdapters

NextConversations == CreateSession \/ SaveMessage \/ GetConversationHistory

SpecConversations == InitConversations /\ [][NextConversations]_vars

\* C26: for every session of the manager, the history read from the cache
\* has the messages of the session file, the same as a forced reload
\* would return, and message_count is the number of messages.
C26_CacheMatchesDisk ==
    \A s \in 1..cm.created :
        /\ load_session(s, FALSE).messages = load_session(s, TRUE).messages
        /\ cm.cache[s].message_count = Len(cm.cache[s].messages)
        /\ cm.disk[s].message_count = Len(cm.disk[s].messages)

\* ---------------------------------------------------------------------
\* An adapter's candidate list over the life of the discovery cache entry
\* ---------------------------------------------------------------------

\* get_response calls of one adapter
MaxResponses == 2

\* variant: the list is asked for again once the cache entry is stale
AsksDiscoveryWhenStale(a) == ad[a].models = NoneList \/ ~CacheValid

\* if self.models is None
AsksDiscovery(a) == ad[a].models = NoneList

\* what get_openai_models may return now: the cached list while the entry
\* is valid, otherwise the result of a live resolution or the fallback
OpenaiModelsNow ==
    IF CacheValid THEN {disc_cache.data}
    ELSE { discover_models(ids) : ids \in LiveReplies } \cup {fallback_models}

\* _get_models of adapter a, giving the list data: the Discovery Service is
\* asked only while self.models is None, and what it resolved is cached
GetModels(a, data, tries) ==
    /\ IF AsksDiscovery(a)
       THEN /\ data \in OpenaiModelsNow
            /\ ad' = [ad EXCEPT ![a].models = data,
                                ![a].obtained = IF @ = << >> THEN data ELSE @,
                                ![a].consulted = @ + 1,
                                ![a].tried = IF tries
                                             THEN Append(@, [at |-> now, models |-> data])
                                             ELSE @]
            /\ IF CacheValid
               THEN UNCHANGED << disc_cache, populations >>
               ELSE CacheSet(data)
       ELSE /\ data = ad[a].models
            /\ ad' = [ad EXCEPT ![a].tried = IF tries
                                             THEN Append(@, [at |-> now, models |-> data])
                                             ELSE @]
            /\ UNCHANGED << disc_cache, populations >>

LifetimeFrame ==
    UNCHANGED << adapterVars, envVars, tokenVars, endpointVars, conversationVars, overlapVars, objVars, pc, callKind,
                 question, initIdx, taskVars, cons, result, outcome, nCalls,
                 constructed, called, delegated, callers, nDiscovery, returned >>

\* await model_instance._get_models() when the adapter is set up
PreInitialize ==
    /\ \E a \in 1..MaxAdapters :
          /\ ad[a].consulted = 0
          /\ \E data \in OpenaiModelsNow \cup {ad[a].models} : GetModels(a, data, FALSE)
    /\ UNCHANGED now
    /\ LifetimeFrame

\* get_response of an adapter: the candidates it walks through
LifetimeGetResponse ==
    /\ \E a \in 1..MaxAdapters :
          /\ Len(ad[a].tried) < MaxResponses
          /\ \E data \in OpenaiModelsNow \cup {ad[a].models} : GetModels(a, data, TRUE)
    /\ UNCHANGED now
    /\ LifetimeFrame

\* time passes: to the last second of the cache entry's validity, or to
\* its expiry
LifetimeTick ==
    /\ disc_cache.present
    /\ \E d \in IdleSteps : now' = now + d
    /\ now' <= MaxTime
    /\ UNCHANGED << ad, disc_cache, populations >>
    /\ LifetimeFrame

\* the adapters of a process, none of them used yet
InitLifetime ==
    /\ apiKeys = {"chatgpt"}
    /\ missingDeps = {}
    /\ InitObject
    /\ gr = NoRun
    /\ now = 0
    /\ disc_cache = EmptyCache
    /\ callers = << >>
    /\ nDiscovery = 0
    /\ returned = NoReturn
    /\ populations = << >>
    /\ inits = << >>
    /\ stored = [p \in Providers |-> << >>]
    /\ ep = NoProbe
    /\ cm = NoManager
    /\ ad = NoAdapters
    /\ tm = NoTokenCall

NextLifetime == PreInitialize \/ LifetimeGetResponse \/ LifetimeTick

SpecLifetime == InitLifetime /\ [][NextLifetime]_vars

\* C28: an adapter that has its candidate list keeps it: it asks the
\* Discovery Service at most once in its life, every get_response tries
\* the list it obtained first, and so the expiry of the cache entry
\* changes nothing for it.
C28_ListKeptForLifetime ==
    \A a \in 1..MaxAdapters :
        /\ ad[a].consulted <= 1
        /\ ad[a].consulted = 1 => ad[a].models = ad[a].obtained
        /\ \A k \in DOMAIN ad[a].tried : ad[a].tried[k].models = ad[a].obtained

\* after the cache entry expired and another adapter was given a newly
\* resolved, different list, the first adapter answered a get_response
\* with the list it had
C28_Witness ==
    /\ ad[1].consulted = 1
    /\ ad[2].consulted = 1
    /\ ad[2].models # ad[1].models
    /\ Len(populations) = 2
    /\ populations[2].at - populations[1].at >= cache_duration
    /\ \E k \in DOMAIN ad[1].tried :
          /\ ad[1].tried[k].at >= populations[2].at
          /\ ad[1].tried[k].models = ad[1].obtained

\* ---------------------------------------------------------------------
\* The consolidation entries of an ask_all result
\* ---------------------------------------------------------------------

\* C29: in every ask_all result _auto_summary is present if and only if
\* _auto_consolidated is present.
C29_AutoKeysTogether ==
    AskAllReturned =>
        (("_auto_summary" \in DOMAIN result) <=> ("_auto_consolidated" \in DOMAIN result))

\* C30: the responses handed to the summary and consolidation prompts are
\* those of exactly the providers whose get_response returned without
\* raising, whatever text they returned.
C30_SuccessIsNoException ==
    \A k \in DOMAIN cons :
        cons[k].st # "none" => cons[k].inputs = ReturnedWithoutRaising

====
